---- MODULE Spec2Model ----
(***************************************************************************)
(* REI-AI backend: the property orchestrator (sync / analyze / audit), the  *)
(* scoring engine and the template report generator.                        *)
(*                                                                          *)
(* Units.  Python floats are modelled by scaled integers:                   *)
(*   *10   ("tenths")     every value produced by round(x, 1) and the       *)
(*                        structural score (0.6*age + 0.4*size);            *)
(*   *100  ("hundredths") the unrounded growth and risk scores.             *)
(* Prices, areas, years, days and the amenity score are whole numbers.      *)
(* A mean is kept as an exact fraction [num, den].                          *)
(***************************************************************************)
EXTENDS Integers, Sequences, FiniteSets, TLC

VARIABLES
    store,      \* rows of the properties table, in primary-key order
    autoflush,  \* configuration of the Session handed to the services
    client,     \* AIService.client is set (OPENAI_API_KEY configured)
    last,       \* the request handled last and what it returned
    call        \* the scoring-engine / template call made last and its result

vars == <<store, autoflush, client, last, call>>

-----------------------------------------------------------------------------
(* Python values.  A dict entry or column value is a tagged record:         *)
(*   "val" a number, "none" Python None / SQL NULL, "absent" key not in dict *)

Val(n) == [k |-> "val", v |-> n]
NoneV == [k |-> "none", v |-> 0]
AbsentV == [k |-> "absent", v |-> 0]

\* dict.get(key, default): the default only replaces an absent key, a key
\* that is present with value None yields None.
Get(d, default) == IF d.k = "absent" THEN Val(default) ELSE d

IsNum(d) == d.k = "val"

Min(a, b) == IF a <= b THEN a ELSE b

\* A feature flag value: t is the Python type, n the number it holds
\* (bool: 0/1, int: the int, str: 0 for "" and 1 for a non-empty string).
FBool(b) == [t |-> "bool", n |-> IF b THEN 1 ELSE 0]
FInt(n) == [t |-> "int", n |-> n]
FStr(nonempty) == [t |-> "str", n |-> IF nonempty THEN 1 ELSE 0]

\* A features entry: "val" with a map m (key -> flag), "none" or "absent".
FMap(m) == [k |-> "val", m |-> m]
FNone == [k |-> "none", m |-> <<>>]
FAbsent == [k |-> "absent", m |-> <<>>]

\* Python truthiness of a flag value, and isinstance(x, int) (bool is an int)
Truthy(x) == x.n # 0
IsInstanceInt(x) == x.t \in {"int", "bool"}

\* round(x, 1) of a value given in hundredths, result in tenths.  A value
\* ending in 5 hundredths is a decimal tie: the double nearest to it lies
\* just below or just above it, so Python rounds it down or up depending on
\* the operands; tie \in {0, 1} is that outcome.
Round1(h, tie) ==
    LET q == h \div 10
        r == h % 10
    IN  IF r < 5 THEN q ELSE IF r > 5 THEN q + 1 ELSE q + tie

\* round(s / 3, 1) for s in tenths, result in tenths (a third is never a tie)
RoundThird(s) == (2 * s + 3) \div 6

RECURSIVE SumOver(_, _)
SumOver(S, f) ==
    IF S = {} THEN 0
    ELSE LET x == CHOOSE y \in S : TRUE IN f[x] + SumOver(S \ {x}, f)

-----------------------------------------------------------------------------
(* Scoring engine: analytics_service.py                                     *)

AmenityKeys == {"pool", "updated_kitchen", "hardwood_floors", "fireplace",
                "smart_home", "solar_panels", "new_hvac", "new_roof",
                "finished_basement", "garage"}

amenity_weights ==
    [a \in AmenityKeys |->
        CASE a = "pool" -> 10
          [] a = "updated_kitchen" -> 8
          [] a = "hardwood_floors" -> 7
          [] a = "fireplace" -> 5
          [] a = "smart_home" -> 8
          [] a = "solar_panels" -> 10
          [] a = "new_hvac" -> 7
          [] a = "new_roof" -> 6
          [] a = "finished_basement" -> 9
          [] a = "garage" -> 3]

\* _calculate_amenity_score(features); features is a features entry that is
\* "val" or "none" (the caller resolved an absent key to {}).
calculate_amenity_score(features) ==
    IF features.k # "val" \/ DOMAIN features.m = {} THEN 50
    ELSE LET m == features.m
             add == [a \in AmenityKeys \cap DOMAIN m |->
                        IF a = "garage" /\ IsInstanceInt(m[a])
                        THEN m[a].n * amenity_weights[a]
                        ELSE IF Truthy(m[a]) THEN amenity_weights[a] ELSE 0]
         IN  Min(50 + SumOver(DOMAIN add, add), 100)

\* datetime.now().year
current_year == 2026

AgeScore(age) ==
    IF age < 5 THEN 100
    ELSE IF age < 10 THEN 95
    ELSE IF age < 20 THEN 85
    ELSE IF age < 30 THEN 75
    ELSE IF age < 50 THEN 65
    ELSE 60

\* SizeScore with 2000 sq ft left out of the optimal range (2000 < sqft)
SizeScore_OpenLowerEdge(sqft) ==
    IF 2000 < sqft /\ sqft <= 3500 THEN 100
    ELSE IF 1500 <= sqft /\ sqft < 2000 THEN 90
    ELSE IF 3500 < sqft /\ sqft <= 4500 THEN 90
    ELSE IF sqft < 1500 THEN 70
    ELSE 75

SizeScore(sqft) ==
    IF 2000 <= sqft /\ sqft <= 3500 THEN 100
    ELSE IF 1500 <= sqft /\ sqft < 2000 THEN 90
    ELSE IF 3500 < sqft /\ sqft <= 4500 THEN 90
    ELSE IF sqft < 1500 THEN 70
    ELSE 75

\* _calculate_structural_score(year_built, sqft): result in tenths;
\* current_year - None and 2000 <= None raise TypeError.
calculate_structural_score(year_built, sqft) ==
    IF ~IsNum(year_built) \/ ~IsNum(sqft) THEN [raised |-> TRUE, v |-> 0]
    ELSE [raised |-> FALSE,
          v |-> AgeScore(current_year - year_built.v) * 6 + SizeScore(sqft.v) * 4]

\* Exact fractions for the means of calculate_street_stats.
Rat(num, den) == [num |-> num, den |-> den]
RatZero == Rat(0, 1)
RatIsZero(a) == a.num = 0

\* p / a < c/100 and p / a <= c/100 for an integer p and a non-zero mean a
RatioLT(p, a, c) ==
    IF a.num > 0 THEN 100 * p * a.den < c * a.num
    ELSE 100 * p * a.den > c * a.num
RatioLE(p, a, c) ==
    IF a.num > 0 THEN 100 * p * a.den <= c * a.num
    ELSE 100 * p * a.den >= c * a.num

\* The dict calculate_street_stats returns: "empty" is {}, "full" has every key.
\* A standard deviation is kept exactly as g * sqrt(num / den); StdZero is 0.
\* std_price_pos says np.std(prices) > 0.
StdDev(g, num, den) == [g |-> g, num |-> num, den |-> den]
StdZero == StdDev(0, 0, 1)
EmptyStats ==
    [k |-> "empty", property_count |-> 0, avg_price |-> RatZero,
     median_price |-> RatZero, avg_price_per_sqft |-> RatZero,
     std_price |-> StdZero, std_price_pos |-> FALSE, avg_sqft |-> RatZero]
FullStats(n, avg_price, median_price, avg_ppsf, std_price, avg_sqft) ==
    [k |-> "full", property_count |-> n, avg_price |-> avg_price,
     median_price |-> median_price, avg_price_per_sqft |-> avg_ppsf,
     std_price |-> std_price, std_price_pos |-> std_price.g > 0, avg_sqft |-> avg_sqft]

\* _calculate_location_score with the sweet spot closed below only
\* (0.95 <= ratio < 1.05)
calculate_location_score_OpenUpperEdge(price_per_sqft, street_stats) ==
    LET hasAvg == street_stats.k = "full"
        avgNone == ~hasAvg /\ ~IsNum(price_per_sqft)
        avg == IF hasAvg THEN street_stats.avg_price_per_sqft
               ELSE Rat(price_per_sqft.v, 1)
    IN  IF ~avgNone /\ RatIsZero(avg) THEN [raised |-> FALSE, v |-> 75]
        ELSE IF avgNone \/ ~IsNum(price_per_sqft) THEN [raised |-> TRUE, v |-> 0]
        ELSE LET p == price_per_sqft.v
             IN  [raised |-> FALSE,
                  v |-> IF ~RatioLT(p, avg, 95) /\ RatioLT(p, avg, 105) THEN 100
                        ELSE IF ~RatioLT(p, avg, 85) /\ RatioLT(p, avg, 95) THEN 95
                        ELSE IF ~RatioLE(p, avg, 105) /\ RatioLE(p, avg, 115) THEN 90
                        ELSE IF RatioLT(p, avg, 85) THEN 80
                        ELSE 70]

\* _calculate_location_score(price_per_sqft, street_stats)
calculate_location_score(price_per_sqft, street_stats) ==
    LET hasAvg == street_stats.k = "full"
        \* street_stats.get('avg_price_per_sqft', price_per_sqft)
        avgNone == ~hasAvg /\ ~IsNum(price_per_sqft)
        avg == IF hasAvg THEN street_stats.avg_price_per_sqft
               ELSE Rat(price_per_sqft.v, 1)
    IN  IF ~avgNone /\ RatIsZero(avg) THEN [raised |-> FALSE, v |-> 75]
        ELSE IF avgNone \/ ~IsNum(price_per_sqft) THEN [raised |-> TRUE, v |-> 0]
        ELSE LET p == price_per_sqft.v
             IN  [raised |-> FALSE,
                  v |-> IF ~RatioLT(p, avg, 95) /\ RatioLE(p, avg, 105) THEN 100
                        ELSE IF ~RatioLT(p, avg, 85) /\ RatioLT(p, avg, 95) THEN 95
                        ELSE IF ~RatioLE(p, avg, 105) /\ RatioLE(p, avg, 115) THEN 90
                        ELSE IF RatioLT(p, avg, 85) THEN 80
                        ELSE 70]

\* _calculate_investment_metrics(property_data).  rental_yield is
\* round(sqft * 1.2 * 12 / price * 100, 2) = round(1440 * sqft / price, 2),
\* kept in hundredths (nearest hundredth of the exact quotient).
calculate_investment_metrics(property_data) ==
    LET sqft == Get(property_data.sqft, 1)
        price == Get(property_data.list_price, 0)
        year_built == Get(property_data.year_built, 2000)
        days_on_market == Get(property_data.days_on_market, 30)
        age == 2024 - year_built.v
        dom == days_on_market.v
    IN  IF ~IsNum(sqft) \/ ~IsNum(price) \/ ~IsNum(year_built) \/ ~IsNum(days_on_market)
        THEN [raised |-> TRUE, rental_yield |-> 0, appreciation_rate |-> 0,
              demand_index |-> 0, supply_index |-> 0, volatility_score |-> 0]
        ELSE [raised |-> FALSE,
              rental_yield |-> IF price.v > 0
                               THEN (2 * 144000 * sqft.v + price.v) \div (2 * price.v)
                               ELSE 0,
              appreciation_rate |-> IF age < 10 THEN 45 ELSE IF age < 20 THEN 38 ELSE 32,
              demand_index |-> IF dom < 15 THEN 90 ELSE IF dom < 30 THEN 80
                               ELSE IF dom < 60 THEN 70 ELSE 60,
              supply_index |-> 70,
              volatility_score |-> 25]

\* calculate_property_scores(property_data, street_stats); street_stats = None
\* is passed as EmptyStats (both are falsy).  structural_score in tenths,
\* rental_yield in hundredths, appreciation_rate in tenths.
calculate_property_scores(property_data, street_stats) ==
    LET f == property_data.features
        amenity == calculate_amenity_score(IF f.k = "absent" THEN FMap(<<>>) ELSE f)
        structural == calculate_structural_score(Get(property_data.year_built, 2000),
                                                 Get(property_data.sqft, 0))
        location == IF street_stats.k = "full"
                    THEN calculate_location_score(Get(property_data.price_per_sqft, 0),
                                                  street_stats)
                    ELSE [raised |-> FALSE, v |-> 75]
        inv == calculate_investment_metrics(property_data)
    IN  [raised |-> structural.raised \/ location.raised \/ inv.raised,
         amenity_score |-> amenity,
         structural_score |-> structural.v,
         location_score |-> location.v,
         rental_yield |-> inv.rental_yield,
         appreciation_rate |-> inv.appreciation_rate,
         demand_index |-> inv.demand_index,
         supply_index |-> inv.supply_index,
         volatility_score |-> inv.volatility_score]

\* The dict get_neighborhood_data returns (population_growth and crime_rate in
\* tenths), and a dict without those keys.
Neighborhood(pg, cr) == [population_growth |-> pg, crime_rate |-> cr]
SampleNeighborhood == Neighborhood(Val(23), Val(125))
EmptyNeighborhood == Neighborhood(AbsentV, AbsentV)

\* ValuationBand with the first band closed (ratio <= 0.9)
ValuationBand_ClosedFirstBand(p, avg) ==
    IF RatioLE(p, avg, 90) THEN 90
    ELSE IF RatioLT(p, avg, 95) THEN 85
    ELSE IF RatioLE(p, avg, 105) THEN 80
    ELSE IF RatioLE(p, avg, 110) THEN 70
    ELSE 60

\* The valuation ladder of calculate_ai_scores on ratio = p / avg
ValuationBand(p, avg) ==
    IF RatioLT(p, avg, 90) THEN 90
    ELSE IF RatioLT(p, avg, 95) THEN 85
    ELSE IF RatioLE(p, avg, 105) THEN 80
    ELSE IF RatioLE(p, avg, 110) THEN 70
    ELSE 60

\* The unrounded growth and risk scores, in hundredths
GrowthRaw(pop_growth, property_age) == Min(7000 + pop_growth * 50 - property_age * 30, 10000)
RiskRaw(days_on_market, crime_rate) == Min(5000 + days_on_market * 30 + crime_rate * 5, 10000)

\* calculate_ai_scores(property_data, street_stats, neighborhood_data); every
\* score is returned as round(score, 1), in tenths.  tieG and tieR are the
\* outcomes of rounding a decimal tie (see Round1).
calculate_ai_scores(property_data, street_stats, neighborhood_data, tieG, tieR) ==
    LET ppsf == Get(property_data.price_per_sqft, 200)
        avg == IF street_stats.k = "full" THEN street_stats.avg_price_per_sqft
               ELSE Rat(200, 1)
        pop_growth == Get(neighborhood_data.population_growth, 20)
        year_built == Get(property_data.year_built, 2000)
        days_on_market == Get(property_data.days_on_market, 30)
        crime_rate == Get(neighborhood_data.crime_rate, 150)
    IN  IF \/ ~IsNum(ppsf)            \* None / x: TypeError
           \/ RatIsZero(avg)          \* x / 0: ZeroDivisionError
           \/ ~IsNum(pop_growth) \/ ~IsNum(year_built)
           \/ ~IsNum(days_on_market) \/ ~IsNum(crime_rate)
        THEN [raised |-> TRUE, ai_valuation_score |-> 0,
              ai_growth_score |-> 0, ai_risk_score |-> 0]
        ELSE [raised |-> FALSE,
              ai_valuation_score |-> ValuationBand(ppsf.v, avg) * 10,
              ai_growth_score |-> Round1(GrowthRaw(pop_growth.v, 2024 - year_built.v), tieG),
              ai_risk_score |-> Round1(RiskRaw(days_on_market.v, crime_rate.v), tieR)]

-----------------------------------------------------------------------------
(* Report generator: ai_service.py                                          *)

\* The analytics dict handed to the report generator: {**scores, **ai_scores}
\* restricted to the keys the generator reads (each a "val"/"none"/"absent"
\* entry; ai_* and appreciation_rate in tenths, structural_score in tenths,
\* rental_yield in hundredths).
Analytics(v, g, r, ry, ar, di, am, st) ==
    [ai_valuation_score |-> v, ai_growth_score |-> g, ai_risk_score |-> r,
     rental_yield |-> ry, appreciation_rate |-> ar, demand_index |-> di,
     amenity_score |-> am, structural_score |-> st]

\* The recommendation printed in the INVESTMENT THESIS section of the report
\* text (scores in tenths)
RecommendationReport(valuation_score, growth_score) ==
    IF valuation_score > 850 /\ growth_score > 800 THEN "STRONG BUY"
    ELSE IF valuation_score > 750 THEN "BUY"
    ELSE "HOLD"

\* RecommendationThesis with the valuation threshold included (>= 85)
RecommendationThesis_ClosedThreshold(valuation_score, growth_score) ==
    IF valuation_score >= 850 /\ growth_score > 800 THEN "STRONG BUY"
    ELSE IF valuation_score > 750 THEN "BUY"
    ELSE "HOLD"

\* The recommendation that opens the investment_thesis field
RecommendationThesis(valuation_score, growth_score) ==
    IF valuation_score > 850 /\ growth_score > 800 THEN "STRONG BUY"
    ELSE IF valuation_score > 750 THEN "BUY"
    ELSE "HOLD"

\* OverallScore with the risk score averaged as it is (not 100 - risk)
OverallScore_RiskNotInverted(valuation_score, growth_score, risk_score) ==
    RoundThird(valuation_score + growth_score + risk_score)

\* overall_score of the template report, in tenths
OverallScore(valuation_score, growth_score, risk_score) ==
    RoundThird(valuation_score + growth_score + (1000 - risk_score))

NoReport ==
    [raised |-> FALSE, strategy |-> "none", property_id |-> NoneV,
     summary |-> <<>>, investment_thesis |-> <<>>, full_report |-> <<>>,
     overall_score |-> 0, valuation_score |-> 0, growth_score |-> 0,
     risk_score |-> 0, sections |-> {}]

RaisedReport == [NoReport EXCEPT !.raised = TRUE]

\* One line of a report text, audit_text.split('\n')[i]: text is the words of
\* line.strip('#').strip(), hashes the number of '#' that line.strip() starts
\* with, upper is line.strip().isupper() and marker is
\* 'EXECUTIVE SUMMARY' in line.upper().
Line(text, hashes, upper, marker) ==
    [text |-> text, hashes |-> hashes, upper |-> upper, marker |-> marker]

\* line.strip() is empty; line.strip().startswith('#')
IsBlank(line) == line.text = <<>> /\ line.hashes = 0
IsHeading(line) == line.hashes > 0

BlankLine == Line(<<>>, 0, FALSE, FALSE)
Prose == Line(<<"This", "property", "presents">>, 0, FALSE, FALSE)

\* What _extract_summary returns: ' '.join(summary_lines) of the lines at the
\* positions collected, or audit_text[:200] when it collected none
Joined(lines) == [k |-> "joined", lines |-> lines, chars |-> 0]
FirstChars(n) == [k |-> "first", lines |-> <<>>, chars |-> n]

RECURSIVE SummaryLoop(_, _, _, _)
\* The for loop of _extract_summary from line i on: the positions of the
\* lines appended to summary_lines
SummaryLoop(lines, i, in_summary, summary_lines) ==
    IF i > Len(lines) THEN summary_lines
    ELSE IF lines[i].marker THEN SummaryLoop(lines, i + 1, TRUE, summary_lines)
    ELSE IF ~in_summary THEN SummaryLoop(lines, i + 1, FALSE, summary_lines)
    ELSE LET appended == IF ~IsBlank(lines[i]) /\ ~IsHeading(lines[i])
                         THEN Append(summary_lines, i) ELSE summary_lines
         IN  IF Len(appended) >= 3 \/ (IsHeading(lines[i]) /\ appended # <<>>)
             THEN appended
             ELSE SummaryLoop(lines, i + 1, TRUE, appended)

\* _extract_summary that stops at the first heading after the marker line,
\* whether or not it has collected a line
extract_summary_StopsAtAnyHeading(lines) ==
    LET first == CHOOSE i \in 1..(Len(lines) + 1) :
                     /\ i <= Len(lines) => lines[i].marker
                     /\ \A j \in 1..(i - 1) : ~lines[j].marker
        stop == CHOOSE i \in (first + 1)..(Len(lines) + 1) :
                     /\ i <= Len(lines) => IsHeading(lines[i])
                     /\ \A j \in (first + 1)..(i - 1) : ~IsHeading(lines[j])
        body == SelectSeq([n \in 1..Len(lines) |-> n],
                          LAMBDA n : n > first /\ n < stop /\ ~IsBlank(lines[n])
                                     /\ ~lines[n].marker)
        summary_lines == SubSeq(body, 1, Min(3, Len(body)))
    IN  IF first > Len(lines) \/ summary_lines = <<>> THEN FirstChars(200)
        ELSE Joined(summary_lines)

\* _extract_summary(audit_text)
extract_summary(lines) ==
    LET summary_lines == SummaryLoop(lines, 1, FALSE, <<>>)
    IN  IF summary_lines # <<>> THEN Joined(summary_lines) ELSE FirstChars(200)

\* sections[key] = body
Store(sections, key, body) ==
    [k \in DOMAIN sections \cup {key} |-> IF k = key THEN body ELSE sections[k]]

\* `if current_section and current_content: sections[current_section] = ...`;
\* current_section is <<>> for None and for the empty string, both falsy
Flushed(sections, current_section, current_content) ==
    IF current_section # <<>> /\ current_content # <<>>
    THEN Store(sections, current_section, current_content)
    ELSE sections

RECURSIVE SectionsLoop(_, _, _, _, _)
\* The for loop of _parse_audit_sections from line i on, and the final flush
SectionsLoop(lines, i, sections, current_section, current_content) ==
    IF i > Len(lines) THEN Flushed(sections, current_section, current_content)
    ELSE IF IsHeading(lines[i]) \/ lines[i].upper
    THEN SectionsLoop(lines, i + 1, Flushed(sections, current_section, current_content),
                      lines[i].text, <<>>)
    ELSE IF current_section # <<>>
    THEN SectionsLoop(lines, i + 1, sections, current_section,
                      Append(current_content, lines[i]))
    ELSE SectionsLoop(lines, i + 1, sections, current_section, current_content)

\* _parse_audit_sections that stores a section even when it has no body line
parse_audit_sections_KeepsEmpty(lines) ==
    LET boundaries == {i \in 1..Len(lines) : IsHeading(lines[i]) \/ lines[i].upper}
        last_of(key) == CHOOSE i \in boundaries :
                            /\ lines[i].text = key
                            /\ \A j \in boundaries : lines[j].text = key => j <= i
        end(i) == CHOOSE e \in (i + 1)..(Len(lines) + 1) :
                      /\ e <= Len(lines) => e \in boundaries
                      /\ \A j \in (i + 1)..(e - 1) : j \notin boundaries
    IN  [key \in {lines[i].text : i \in boundaries} \ {<<>>} |->
            SubSeq(lines, last_of(key) + 1, end(last_of(key)) - 1)]

\* _parse_audit_sections(audit_text): the mapping from a heading's text to the
\* lines of its body ('\n'.join(current_content))
parse_audit_sections(lines) == SectionsLoop(lines, 1, <<>>, <<>>, <<>>)

\* The lines of the template text as far as _parse_audit_sections tells them
\* apart: its headings, and the blank and prose lines between them
TemplateLines(address) ==
    <<Line(<<"INVESTMENT", "AUDIT", "REPORT">>, 1, TRUE, FALSE),
      Line(address, 2, FALSE, FALSE), BlankLine,
      Line(<<"EXECUTIVE", "SUMMARY">>, 3, TRUE, TRUE), Prose, BlankLine,
      Line(<<"PROPERTY", "VALUATION", "ANALYSIS">>, 3, TRUE, FALSE), BlankLine, Prose,
      BlankLine,
      Line(<<"LOCATION", "&", "NEIGHBORHOOD", "ASSESSMENT">>, 3, TRUE, FALSE), BlankLine,
      Prose, BlankLine,
      Line(<<"INVESTMENT", "METRICS">>, 3, TRUE, FALSE), BlankLine, Prose, BlankLine,
      Line(<<"AMENITY", "&", "CONDITION", "ANALYSIS">>, 3, TRUE, FALSE), BlankLine, Prose,
      BlankLine,
      Line(<<"RISK", "ASSESSMENT">>, 3, TRUE, FALSE), BlankLine, Prose, BlankLine,
      Line(<<"INVESTMENT", "THESIS">>, 3, TRUE, FALSE), BlankLine, Prose, BlankLine>>

\* The keys of self._parse_audit_sections(report) for the template text
TemplateSections(address) == DOMAIN parse_audit_sections(TemplateLines(address))

\* property_data.get("id")
property_id(property_data) ==
    IF property_data.id.k = "absent" THEN NoneV ELSE property_data.id

\* _generate_sample_audit(property_data, analytics).  The f-string raises
\* TypeError when a value it formats with a numeric format spec, or compares
\* with a number, is None.  The report text is kept as the values rendered
\* into it.
generate_sample_audit(property_data, analytics) ==
    LET address == property_data.address
        price == Get(property_data.list_price, 0)
        ppsf == Get(property_data.price_per_sqft, 0)
        sqft == Get(property_data.sqft, 0)
        valuation_score == Get(analytics.ai_valuation_score, 750)
        growth_score == Get(analytics.ai_growth_score, 700)
        risk_score == Get(analytics.ai_risk_score, 350)
        rental_yield == Get(analytics.rental_yield, 450)
        appreciation_rate == Get(analytics.appreciation_rate, 38)
        demand_index == Get(analytics.demand_index, 75)
        amenity_score == Get(analytics.amenity_score, 60)
        structural_score == Get(analytics.structural_score, 700)
        v == valuation_score.v
        g == growth_score.v
        r == risk_score.v
    IN  IF \E x \in {price, ppsf, sqft, valuation_score, growth_score, risk_score,
                     rental_yield, appreciation_rate, demand_index, amenity_score,
                     structural_score} : ~IsNum(x)
        THEN RaisedReport
        ELSE [raised |-> FALSE,
              strategy |-> "template",
              property_id |-> property_id(property_data),
              summary |-> [opportunity |-> IF v > 800 THEN "strong" ELSE "moderate",
                           valuation |-> v, growth |-> g],
              investment_thesis |-> [recommendation |-> RecommendationThesis(v, g),
                                     investment |-> IF v > 850 THEN "compelling" ELSE "solid",
                                     potential |-> IF v > 850 THEN "excellent" ELSE "good"],
              full_report |-> [address |-> address, price |-> price.v, ppsf |-> ppsf.v,
                               sqft |-> sqft.v, valuation |-> v, growth |-> g, risk |-> r,
                               rental_yield |-> rental_yield.v,
                               appreciation_rate |-> appreciation_rate.v,
                               demand_index |-> demand_index.v,
                               amenity_score |-> amenity_score.v,
                               structural_score |-> structural_score.v,
                               recommendation |-> RecommendationReport(v, g),
                               confidence |-> IF v > 800 THEN "High" ELSE "Moderate"],
              overall_score |-> OverallScore(v, g, r),
              valuation_score |-> v,
              growth_score |-> g,
              risk_score |-> r,
              sections |-> TemplateSections(address)]

\* The outcomes of the generative path: the completion call returns a text
\* that parses, the call raises, or the local parsing of its response raises
\* (for instance message.content is None).
GenOutcomes == {"ok", "call_raises", "parse_raises"}

\* generate_investment_audit whose except clause lets the exception go
generate_investment_audit_NoFallback(hasClient, gen, property_data, analytics) ==
    IF ~hasClient THEN generate_sample_audit(property_data, analytics)
    ELSE IF gen = "ok"
    THEN [raised |-> FALSE,
          strategy |-> "generative",
          property_id |-> property_id(property_data),
          summary |-> [text |-> "generated"],
          investment_thesis |-> [text |-> "generated"],
          full_report |-> [text |-> "generated"],
          overall_score |-> Get(analytics.ai_valuation_score, 750).v,
          valuation_score |-> Get(analytics.ai_valuation_score, 750).v,
          growth_score |-> Get(analytics.ai_growth_score, 700).v,
          risk_score |-> Get(analytics.ai_risk_score, 350).v,
          sections |-> {<<"GENERATED">>}]
    ELSE RaisedReport

\* generate_investment_audit(property_data, street_stats, neighborhood_data,
\* analytics) of a service whose client is set or not, when the generative
\* path ends as gen.
generate_investment_audit(hasClient, gen, property_data, analytics) ==
    IF ~hasClient THEN generate_sample_audit(property_data, analytics)
    ELSE IF gen = "ok"
    THEN [raised |-> FALSE,
          strategy |-> "generative",
          property_id |-> property_id(property_data),
          summary |-> [text |-> "generated"],
          investment_thesis |-> [text |-> "generated"],
          full_report |-> [text |-> "generated"],
          overall_score |-> Get(analytics.ai_valuation_score, 750).v,
          valuation_score |-> Get(analytics.ai_valuation_score, 750).v,
          growth_score |-> Get(analytics.ai_growth_score, 700).v,
          risk_score |-> Get(analytics.ai_risk_score, 350).v,
          sections |-> {<<"GENERATED">>}]
    ELSE generate_sample_audit(property_data, analytics)

-----------------------------------------------------------------------------
(* Fetched listings and table rows                                          *)

\* An address is the sequence of the pieces that single spaces separate; a
\* comma is a piece of its own, and an empty piece "" stands for one more
\* space between two words.
Addr(words) == [k |-> "val", a |-> words]
AddrAbsent == [k |-> "absent", a |-> <<>>]

\* A latitude and a longitude are whole thousandths of a degree.
Point(latitude, longitude) == [latitude |-> latitude, longitude |-> longitude]

\* The 'status' key of a dict, and a dict without one
Status(s) == [k |-> "val", s |-> s]
StatusAbsent == [k |-> "absent", s |-> ""]

\* One dict of the list get_properties_by_city returns.  Neither the sample
\* generator nor the transformation of the external response writes a
\* 'location' key.
Item(address, city, zip_code, point, bedrooms, sqft, year_built, list_price, price_per_sqft, days_on_market, status, features, data_source) ==
    [address |-> address, city |-> city, zip_code |-> zip_code,
     latitude |-> point.latitude, longitude |-> point.longitude,
     location |-> [k |-> "absent", p |-> Point(0, 0)],
     bedrooms |-> bedrooms, sqft |-> sqft, year_built |-> year_built,
     list_price |-> list_price, price_per_sqft |-> price_per_sqft,
     days_on_market |-> days_on_market, status |-> status, features |-> features,
     data_source |-> data_source]

ParkBlvd1000 == Addr(<<"1000", "Park", "Blvd", ",", "Plano", ",", "TX">>)
ParkBlvd2000 == Addr(<<"2000", "Park", "Blvd", ",", "Plano", ",", "TX">>)
MainSt5 == Addr(<<"5", "MAIN", "ST", ",", "PLANO", ",", "TX", "75023">>)

\* The random choices _get_sample_properties makes for one listing; rate is
\* the randint(180, 320) that the price is a multiple of.
Draw(street_num, zip_code, point, bedrooms, sqft, year_built, rate, days_on_market, status, pool, updated_kitchen) ==
    [street_num |-> street_num, zip_code |-> zip_code, point |-> point,
     bedrooms |-> bedrooms, sqft |-> sqft, year_built |-> year_built, rate |-> rate,
     days_on_market |-> days_on_market, status |-> status, pool |-> pool,
     updated_kitchen |-> updated_kitchen]
DrawA == Draw("1000", "75023", Point(33020, -96699), 3, 2000, 2015, 200, 10, "Active", TRUE, TRUE)
DrawB == Draw("2000", "75024", Point(33022, -96699), 4, 1800, 2000, 180, 90, "Pending", FALSE, FALSE)

\* SampleProperty with a price that is not a multiple of the area
SampleProperty_PriceOffByOne(city, d) ==
    Item(Addr(<<d.street_num, "Park", "Blvd", ",", city, ",", "TX">>), city, d.zip_code,
         d.point, Val(d.bedrooms), Val(d.sqft), Val(d.year_built), Val(d.sqft * d.rate + 1),
         Val(d.rate), Val(d.days_on_market), Status(d.status),
         FMap([pool |-> FBool(d.pool), garage |-> FInt(2), fireplace |-> FBool(FALSE),
               updated_kitchen |-> FBool(d.updated_kitchen),
               hardwood_floors |-> FBool(FALSE)]),
         "SAMPLE")

\* One dict as _get_sample_properties(city) builds it: price = sqft * rate, so
\* price_per_sqft = round(price / sqft, 2) = rate.
SampleProperty(city, d) ==
    Item(Addr(<<d.street_num, "Park", "Blvd", ",", city, ",", "TX">>), city, d.zip_code,
         d.point, Val(d.bedrooms), Val(d.sqft), Val(d.year_built), Val(d.sqft * d.rate),
         Val(d.rate), Val(d.days_on_market), Status(d.status),
         FMap([pool |-> FBool(d.pool), garage |-> FInt(2), fireplace |-> FBool(FALSE),
               updated_kitchen |-> FBool(d.updated_kitchen),
               hardwood_floors |-> FBool(FALSE)]),
         "SAMPLE")

\* _get_sample_properties(city): one listing per draw
get_sample_properties(city, draws) ==
    [i \in 1..Len(draws) |-> SampleProperty(city, draws[i])]

SampleA == SampleProperty("Plano", DrawA)
SampleB == SampleProperty("Plano", DrawB)
\* A dict as _transform_attom_data builds it from a response without building
\* size, year, rooms and coordinates: these are 0, and there is no list_price,
\* price_per_sqft, days_on_market or features key.
AttomC ==
    Item(MainSt5, "PLANO", "75023", Point(0, 0), Val(0), Val(0), Val(0), AbsentV, AbsentV, AbsentV, StatusAbsent, FAbsent, "ATTOM")
\* A dict without an 'address' key
NoAddress ==
    Item(AddrAbsent, "Plano", "75023", Point(33020, -96699), Val(3), Val(2000), Val(2015), Val(400000), Val(200), Val(10),
         Status("Active"), FAbsent, "OTHER")

Items == {SampleA, SampleB, AttomC, NoAddress}

\* What the request to the external API comes to: a response whose listing
\* transforms, a response with a listing whose conversion raises (the listing
\* is skipped), a response that is no mapping (data.get raises in
\* _transform_attom_data), or a failed call (connection, status, decoding)
FetchOutcomes == {"ok", "item_raises", "transform_raises", "call_raises"}

\* _fetch_from_attom(city, state, limit): the listings it returns
fetch_from_attom(fetch) == IF fetch = "ok" THEN <<AttomC>> ELSE <<>>

\* What get_properties_by_city did: whether it called the external API,
\* whether an exception left it, and the list it returned
Fetched(called, raised, properties) ==
    [called |-> called, raised |-> raised, properties |-> properties]

\* get_properties_by_city with `except Exception` re-raising instead of
\* falling back to the sample listings
get_properties_by_city_NoFallback(attom_key, use_sample, fetch, city, draws) ==
    IF attom_key.k = "none" \/ attom_key.v = "" \/ use_sample
    THEN Fetched(FALSE, FALSE, get_sample_properties(city, draws))
    ELSE IF fetch \in {"call_raises", "transform_raises"}
    THEN Fetched(TRUE, TRUE, <<>>)
    ELSE Fetched(TRUE, FALSE, fetch_from_attom(fetch))

\* get_properties_by_city(city): attom_key is settings.ATTOM_API_KEY (None,
\* or a string that may be empty), use_sample settings.USE_SAMPLE_DATA
get_properties_by_city(attom_key, use_sample, fetch, city, draws) ==
    IF attom_key.k = "none" \/ attom_key.v = "" \/ use_sample
    THEN Fetched(FALSE, FALSE, get_sample_properties(city, draws))
    ELSE IF fetch \in {"call_raises", "transform_raises"}
    THEN Fetched(TRUE, FALSE, get_sample_properties(city, draws))
    ELSE Fetched(TRUE, FALSE, fetch_from_attom(fetch))

\* The longest fetched batch and the most rows the table is let grow to
MaxBatch == 2
MaxRows == 2

RECURSIVE SeqsUpTo(_, _)
SeqsUpTo(S, n) ==
    IF n = 0 THEN {<<>>}
    ELSE LET shorter == SeqsUpTo(S, n - 1)
         IN  shorter \cup {Append(b, x) : b \in {c \in shorter : Len(c) = n - 1}, x \in S}

Batches == SeqsUpTo(Items, MaxBatch)

\* The computed-score columns of a row that sync fills
NoScores ==
    [k |-> "none", amenity_score |-> 0, structural_score |-> 0, location_score |-> 0,
     rental_yield |-> 0, appreciation_rate |-> 0, demand_index |-> 0,
     supply_index |-> 0, volatility_score |-> 0]

ScoreColumns(scores) ==
    [k |-> "val", amenity_score |-> scores.amenity_score,
     structural_score |-> scores.structural_score,
     location_score |-> scores.location_score,
     rental_yield |-> scores.rental_yield,
     appreciation_rate |-> scores.appreciation_rate,
     demand_index |-> scores.demand_index,
     supply_index |-> scores.supply_index,
     volatility_score |-> scores.volatility_score]

\* A column takes the dict's value; a key the dict lacks leaves the column NULL.
Column(d) == IF d.k = "absent" THEN NoneV ELSE d

\* Property(**prop_data) after prop_data.update(scores); the id is assigned
\* when the row is flushed.
Property(prop_data, scores) ==
    [id |-> 0,
     address |-> prop_data.address.a,
     city |-> prop_data.city,
     zip_code |-> prop_data.zip_code,
     latitude |-> prop_data.latitude,
     longitude |-> prop_data.longitude,
     location |-> IF prop_data.location.k = "absent"
                  THEN [k |-> "none", p |-> Point(0, 0)] ELSE prop_data.location,
     bedrooms |-> Column(prop_data.bedrooms),
     sqft |-> Column(prop_data.sqft),
     year_built |-> Column(prop_data.year_built),
     list_price |-> Column(prop_data.list_price),
     price_per_sqft |-> Column(prop_data.price_per_sqft),
     days_on_market |-> Column(prop_data.days_on_market),
     status |-> IF prop_data.status.k = "absent" THEN "NULL" ELSE prop_data.status.s,
     features |-> IF prop_data.features.k = "absent" THEN FNone ELSE prop_data.features,
     data_source |-> prop_data.data_source,
     scores |-> ScoreColumns(scores)]

\* SetAttrs followed by a recomputation of the row's scores from prop_data
SetAttrs_RecomputesScores(existing, prop_data) ==
    LET Over(old, d) == IF d.k = "absent" THEN old ELSE d
    IN  [existing EXCEPT
            !.address = prop_data.address.a,
            !.city = prop_data.city,
            !.zip_code = prop_data.zip_code,
            !.latitude = prop_data.latitude,
            !.longitude = prop_data.longitude,
            !.location = Over(@, prop_data.location),
            !.bedrooms = Over(@, prop_data.bedrooms),
            !.sqft = Over(@, prop_data.sqft),
            !.year_built = Over(@, prop_data.year_built),
            !.list_price = Over(@, prop_data.list_price),
            !.price_per_sqft = Over(@, prop_data.price_per_sqft),
            !.days_on_market = Over(@, prop_data.days_on_market),
            !.status = IF prop_data.status.k = "absent" THEN @ ELSE prop_data.status.s,
            !.features = Over(@, prop_data.features),
            !.data_source = prop_data.data_source,
            !.scores = ScoreColumns(calculate_property_scores(prop_data, EmptyStats))]

\* for key, value in prop_data.items(): setattr(existing, key, value)
SetAttrs(existing, prop_data) ==
    LET Over(old, d) == IF d.k = "absent" THEN old ELSE d
    IN  [existing EXCEPT
            !.address = prop_data.address.a,
            !.city = prop_data.city,
            !.zip_code = prop_data.zip_code,
            !.latitude = prop_data.latitude,
            !.longitude = prop_data.longitude,
            !.location = Over(@, prop_data.location),
            !.bedrooms = Over(@, prop_data.bedrooms),
            !.sqft = Over(@, prop_data.sqft),
            !.year_built = Over(@, prop_data.year_built),
            !.list_price = Over(@, prop_data.list_price),
            !.price_per_sqft = Over(@, prop_data.price_per_sqft),
            !.days_on_market = Over(@, prop_data.days_on_market),
            !.status = IF prop_data.status.k = "absent" THEN @ ELSE prop_data.status.s,
            !.features = Over(@, prop_data.features),
            !.data_source = prop_data.data_source]

-----------------------------------------------------------------------------
(* The Session: rows already in the table and objects added but not flushed *)

Session(rows, new) == [rows |-> rows, new |-> new]

RECURSIVE Flush(_)
\* INSERT every pending object, in the order it was added; the table assigns
\* the next id.
Flush(s) ==
    IF s.new = <<>> THEN s
    ELSE Flush(Session(Append(s.rows, [Head(s.new) EXCEPT !.id = Len(s.rows) + 1]),
                       Tail(s.new)))

\* A Query runs the pending INSERTs first when the Session autoflushes.
BeforeQuery(s, auto) == IF auto THEN Flush(s) ELSE s

\* db.query(Property).filter(Property.address == address).first(): the index of
\* the row returned, 0 for None.  The query has no ORDER BY; pick chooses
\* which of several matching rows the table returns first.
QueryFirstByAddress(rows, address, pick) ==
    LET hits == {i \in 1..Len(rows) : rows[i].address = address}
    IN  IF hits = {} THEN 0
        ELSE IF pick = "lowest" THEN CHOOSE i \in hits : \A j \in hits : i <= j
        ELSE CHOOSE i \in hits : \A j \in hits : i >= j

\* The running state of one sync_properties call
SyncState(s, count, inserted, updated) ==
    [s |-> s, count |-> count, inserted |-> inserted, updated |-> updated]

\* SyncItem with count += 1 moved out of the try block: an item that raises
\* is counted too
SyncItem_CountsRaising(st, prop_data, auto, pick) ==
    IF prop_data.address.k = "absent"
    THEN [st EXCEPT !.count = @ + 1]
    ELSE LET s == BeforeQuery(st.s, auto)
             existing == QueryFirstByAddress(s.rows, prop_data.address.a, pick)
             scores == calculate_property_scores(prop_data, EmptyStats)
         IN  IF existing # 0
             THEN SyncState(Session([s.rows EXCEPT ![existing] = SetAttrs(@, prop_data)],
                                    s.new),
                            st.count + 1, st.inserted, st.updated + 1)
             ELSE IF scores.raised
             THEN [st EXCEPT !.s = s, !.count = @ + 1]
             ELSE SyncState(Session(s.rows, Append(s.new, Property(prop_data, scores))),
                            st.count + 1, st.inserted + 1, st.updated)

\* The body of the for loop of sync_properties for one prop_data
SyncItem(st, prop_data, auto, pick) ==
    IF prop_data.address.k = "absent"
    THEN st                                  \* KeyError: logged, continue
    ELSE LET s == BeforeQuery(st.s, auto)
             existing == QueryFirstByAddress(s.rows, prop_data.address.a, pick)
             scores == calculate_property_scores(prop_data, EmptyStats)
         IN  IF existing # 0
             THEN SyncState(Session([s.rows EXCEPT ![existing] = SetAttrs(@, prop_data)],
                                    s.new),
                            st.count + 1, st.inserted, st.updated + 1)
             ELSE IF scores.raised
             THEN [st EXCEPT !.s = s]        \* TypeError: logged, continue
             ELSE SyncState(Session(s.rows, Append(s.new, Property(prop_data, scores))),
                            st.count + 1, st.inserted + 1, st.updated)

RECURSIVE SyncLoop(_, _, _, _)
SyncLoop(st, properties_data, auto, pick) ==
    IF properties_data = <<>> THEN st
    ELSE SyncLoop(SyncItem(st, Head(properties_data), auto, pick),
                  Tail(properties_data), auto, pick)

\* sync_properties as a reload: the table is emptied before the loop
sync_properties_Reloads(rows, properties_data, auto, pick) ==
    LET st == SyncLoop(SyncState(Session(<<>>, <<>>), 0, 0, 0), properties_data, auto, pick)
    IN  [st EXCEPT !.s = Flush(st.s)]

\* sync_properties once properties_data is fetched: the loop, then db.commit()
sync_properties(rows, properties_data, auto, pick) ==
    LET st == SyncLoop(SyncState(Session(rows, <<>>), 0, 0, 0), properties_data, auto, pick)
    IN  [st EXCEPT !.s = Flush(st.s)]

-----------------------------------------------------------------------------
(* Aggregation and the analysis of one record                               *)

\* _extract_street_name(address): the words before the first comma, without
\* the first of them when there are several.  parts.split() drops the empty
\* pieces and ' '.join puts one space between the words; parts is stripped,
\* so with at most one word it is that word or the empty text.
extract_street_name(address) ==
    LET commas == {i \in 1..Len(address) : address[i] = ","}
        n == IF commas = {} THEN Len(address)
             ELSE (CHOOSE i \in commas : \A j \in commas : i <= j) - 1
        words == SelectSeq(SubSeq(address, 1, n), LAMBDA w : w # "")
    IN  IF Len(words) > 1 THEN Tail(words) ELSE words

\* Property.address.like(f"%{street_name}%"), word by word
Like(address, street_name) ==
    \E i \in 0..(Len(address) - Len(street_name)) :
        SubSeq(address, i + 1, i + Len(street_name)) = street_name

\* [f(p) for p in properties if f(p)]: not NULL and not 0
TruthyCol(d) == d.k = "val" /\ d.v # 0

\* np.mean of a list, 0 for the empty list
Mean(values) ==
    IF DOMAIN values = {} THEN RatZero
    ELSE Rat(SumOver(DOMAIN values, values), Len(values))

RECURSIVE TruthyValues(_)
\* the values of a column, in row order, that are truthy
TruthyValues(col) ==
    IF col = <<>> THEN <<>>
    ELSE IF TruthyCol(Head(col)) THEN <<Head(col).v>> \o TruthyValues(Tail(col))
    ELSE TruthyValues(Tail(col))

RECURSIVE Gcd(_, _)
Gcd(a, b) == IF b = 0 THEN a ELSE Gcd(b, a % b)

Magnitude(x) == IF x < 0 THEN 0 - x ELSE x

RECURSIVE Sorted(_)
\* the values in ascending order
Sorted(values) ==
    IF values = <<>> THEN <<>>
    ELSE LET i == CHOOSE j \in DOMAIN values : \A m \in DOMAIN values : values[j] <= values[m]
         IN  <<values[i]>> \o Sorted(SubSeq(values, 1, i - 1) \o
                                     SubSeq(values, i + 1, Len(values)))

\* np.median of a list, 0 for the empty list
Median(values) ==
    LET n == Len(values)
        v == Sorted(values)
    IN  IF n = 0 THEN RatZero
        ELSE IF n % 2 = 1 THEN Rat(v[(n + 1) \div 2], 1)
        ELSE Rat(v[n \div 2] + v[n \div 2 + 1], 2)

\* Std with Bessel's correction (the sample standard deviation, divisor n - 1)
Std_SampleDivisor(values) ==
    LET n == Len(values)
        s == SumOver(DOMAIN values, values)
        d == [i \in DOMAIN values |-> Magnitude(n * values[i] - s)]
        RECURSIVE GcdOf(_)
        GcdOf(q) == IF q = <<>> THEN 0 ELSE Gcd(Head(q), GcdOf(Tail(q)))
        g == GcdOf(d)
        sq == [i \in DOMAIN d |-> (d[i] \div g) * (d[i] \div g)]
    IN  IF n = 0 \/ g = 0 THEN StdZero
        ELSE StdDev(g, SumOver(DOMAIN sq, sq), n * n * (n - 1))

\* np.std of a list (the population standard deviation: the mean of the
\* squared deviations, divisor n), 0 for the empty list.  With s the sum and
\* d[i] = n * x[i] - s, std^2 = sum(d[i]^2) / n^3; the common factor g of the
\* d[i] is kept outside the root.
Std(values) ==
    LET n == Len(values)
        s == SumOver(DOMAIN values, values)
        d == [i \in DOMAIN values |-> Magnitude(n * values[i] - s)]
        RECURSIVE GcdOf(_)
        GcdOf(q) == IF q = <<>> THEN 0 ELSE Gcd(Head(q), GcdOf(Tail(q)))
        g == GcdOf(d)
        sq == [i \in DOMAIN d |-> (d[i] \div g) * (d[i] \div g)]
    IN  IF n = 0 \/ g = 0 THEN StdZero
        ELSE StdDev(g, SumOver(DOMAIN sq, sq), n * n * n)

\* calculate_street_stats without the early return for an empty selection
calculate_street_stats_NoEarlyReturn(rows, street_name, city) ==
    LET properties == SelectSeq(rows, LAMBDA p : Like(p.address, street_name) /\ p.city = city)
        prices == TruthyValues([i \in DOMAIN properties |-> properties[i].list_price])
        price_per_sqft ==
            TruthyValues([i \in DOMAIN properties |-> properties[i].price_per_sqft])
        sqfts == TruthyValues([i \in DOMAIN properties |-> properties[i].sqft])
    IN  FullStats(Len(properties), Mean(prices), Median(prices),
                  Mean(price_per_sqft), Std(prices), Mean(sqfts))

\* calculate_street_stats(db, street_name, city)
calculate_street_stats(rows, street_name, city) ==
    LET properties == SelectSeq(rows, LAMBDA p : Like(p.address, street_name) /\ p.city = city)
        prices == TruthyValues([i \in DOMAIN properties |-> properties[i].list_price])
        price_per_sqft ==
            TruthyValues([i \in DOMAIN properties |-> properties[i].price_per_sqft])
        sqfts == TruthyValues([i \in DOMAIN properties |-> properties[i].sqft])
    IN  IF properties = <<>> THEN EmptyStats
        ELSE FullStats(Len(properties), Mean(prices), Median(prices),
                       Mean(price_per_sqft), Std(prices), Mean(sqfts))

\* round((price - avg_price) / std_price, 2) in hundredths, for std_price > 0.
\* With avg_price = a / b and std_price = g * sqrt(num / den),
\* z^2 = (price * b - a)^2 * den / ((b * g)^2 * num); the common factor of
\* price * b - a and b * g is cancelled first.  |z| <= 10 in every call made.
ZScore(price, avg_price, std_price) ==
    LET P == price * avg_price.den - avg_price.num
        h == Gcd(Magnitude(P), avg_price.den * std_price.g)
        p1 == Magnitude(P) \div h
        k1 == (avg_price.den * std_price.g) \div h
        A == p1 * p1 * std_price.den
        B == k1 * k1 * std_price.num
        r == CHOOSE x \in 0..1000 :
                 /\ x = 0 \/ (2 * x - 1) * (2 * x - 1) * B <= 40000 * A
                 /\ 40000 * A < (2 * x + 1) * (2 * x + 1) * B
    IN  IF P < 0 THEN 0 - r ELSE r

\* _zscore_to_percentile(zscore) = int(norm.cdf(zscore) * 100) for the
\* unrounded z-score: exactly 50 at 0; the cumulative distribution is
\* increasing, so the value lies in [0, 50] below 0 and in [50, 100] above.
\* The result is kept as that interval [lo, hi].
zscore_to_percentile(price, avg_price) ==
    LET P == price * avg_price.den - avg_price.num
    IN  IF P = 0 THEN [lo |-> 50, hi |-> 50]
        ELSE IF P < 0 THEN [lo |-> 0, hi |-> 50]
        ELSE [lo |-> 50, hi |-> 100]

NoComparison ==
    [raised |-> FALSE, price |-> FALSE, ppsf |-> FALSE, sqft |-> FALSE,
     price_zscore |-> 0, price_percentile |-> [lo |-> 0, hi |-> 0]]

\* compare_to_street that reports a z-score of 0 and the percentile 50 when
\* the standard deviation is 0, instead of leaving both out
compare_to_street_ZeroWhenFlat(property_data, street_stats) ==
    LET price == Get(property_data.list_price, 0)
        ppsf == Get(property_data.price_per_sqft, 0)
        sqft == Get(property_data.sqft, 0)
        by_price == street_stats.std_price_pos
        by_ppsf == street_stats.avg_price_per_sqft.num > 0
        by_sqft == street_stats.avg_sqft.num > 0
        raised == \/ by_price /\ ~IsNum(price)
                  \/ by_ppsf /\ ~IsNum(ppsf)
                  \/ by_sqft /\ ~IsNum(sqft)
    IN  IF street_stats.k = "empty"
        THEN [raised |-> FALSE, price |-> FALSE, ppsf |-> FALSE, sqft |-> FALSE,
              price_zscore |-> 0, price_percentile |-> [lo |-> 0, hi |-> 0]]
        ELSE IF raised
        THEN [raised |-> TRUE, price |-> FALSE, ppsf |-> FALSE, sqft |-> FALSE,
              price_zscore |-> 0, price_percentile |-> [lo |-> 0, hi |-> 0]]
        ELSE [raised |-> FALSE, price |-> TRUE, ppsf |-> by_ppsf, sqft |-> by_sqft,
              price_zscore |-> 0, price_percentile |-> [lo |-> 50, hi |-> 50]]

\* compare_to_street(property_data, street_stats): whether it raises, which
\* of its sub-comparisons it emits (price: price_zscore and price_percentile,
\* ppsf: ppsf_ratio and ppsf_vs_street, sqft: sqft_ratio), and the price
\* z-score (hundredths) and percentile when emitted
compare_to_street(property_data, street_stats) ==
    LET price == Get(property_data.list_price, 0)
        ppsf == Get(property_data.price_per_sqft, 0)
        sqft == Get(property_data.sqft, 0)
        by_price == street_stats.std_price_pos
        by_ppsf == street_stats.avg_price_per_sqft.num > 0
        by_sqft == street_stats.avg_sqft.num > 0
        raised == \/ by_price /\ ~IsNum(price)
                  \/ by_ppsf /\ ~IsNum(ppsf)
                  \/ by_sqft /\ ~IsNum(sqft)
    IN  IF street_stats.k = "empty" THEN NoComparison
        ELSE IF raised THEN [NoComparison EXCEPT !.raised = TRUE]
        ELSE [raised |-> FALSE, price |-> by_price, ppsf |-> by_ppsf, sqft |-> by_sqft,
              price_zscore |-> IF by_price
                               THEN ZScore(price.v, street_stats.avg_price,
                                           street_stats.std_price)
                               ELSE 0,
              price_percentile |-> IF by_price
                                   THEN zscore_to_percentile(price.v, street_stats.avg_price)
                                   ELSE [lo |-> 0, hi |-> 0]]

\* A query parameter: None when the request leaves it out
Filters(city, zip_code, min_price, max_price, min_beds, max_beds) ==
    [city |-> city, zip_code |-> zip_code, min_price |-> min_price,
     max_price |-> max_price, min_beds |-> min_beds, max_beds |-> max_beds]

\* `if city:` and `if min_price:`: a parameter that is None or falsy ("" for
\* a string, 0 for a number) adds no filter
Supplied(param, falsy) == param.k = "val" /\ param.v # falsy

\* The WHERE clause get_properties builds; a comparison with a NULL column
\* is not true
Selected(row, f) ==
    /\ Supplied(f.city, "") => row.city = f.city.v
    /\ Supplied(f.zip_code, "") => row.zip_code = f.zip_code.v
    /\ Supplied(f.min_price, 0) => row.list_price.k = "val" /\ row.list_price.v >= f.min_price.v
    /\ Supplied(f.max_price, 0) => row.list_price.k = "val" /\ row.list_price.v <= f.max_price.v
    /\ Supplied(f.min_beds, 0) => row.bedrooms.k = "val" /\ row.bedrooms.v >= f.min_beds.v
    /\ Supplied(f.max_beds, 0) => row.bedrooms.k = "val" /\ row.bedrooms.v <= f.max_beds.v

\* get_properties(db, city, ..., skip, limit): the positions in the table of
\* the rows returned, query.offset(skip).limit(limit).all() in table order
get_properties(rows, f, skip, limit) ==
    LET picked(i) == Selected(rows[i], f)
        hits == SelectSeq([i \in 1..Len(rows) |-> i], picked)
    IN  SubSeq(hits, skip + 1, Min(skip + limit, Len(hits)))

\* The squared distance in metres between two points that lie within a tenth
\* of a degree of each other: a thousandth of a degree is 111 m of latitude
\* and, at the latitude of the sample listings, 93 m of longitude.
SquaredMetres(a, b) ==
    LET dy == 111 * (a.latitude - b.latitude)
        dx == 93 * (a.longitude - b.longitude)
    IN  dx * dx + dy * dy

\* ST_DWithin(Property.location, point, radius_miles * 1609.34), the radius
\* in tenths of a mile: NULL, which the filter drops, for a NULL location.
\* Points a tenth of a degree apart are farther than any radius asked for.
ST_DWithin(location, point, radius_miles) ==
    /\ location.k = "val"
    /\ Magnitude(location.p.latitude - point.latitude) <= 100
    /\ Magnitude(location.p.longitude - point.longitude) <= 100
    /\ SquaredMetres(location.p, point) <= (161 * radius_miles) * (161 * radius_miles)

\* get_nearby_properties(db, latitude, longitude, radius_miles): the ids of
\* the rows returned, in table order
get_nearby_properties(rows, latitude, longitude, radius_miles) ==
    LET hit(i) == ST_DWithin(rows[i].location, Point(latitude, longitude), radius_miles)
        hits == SelectSeq([i \in 1..Len(rows) |-> i], hit)
    IN  [n \in 1..Len(hits) |-> rows[hits[n]].id]

\* db.query(Property).filter(Property.id == property_id).first(): the index of
\* the row, 0 for None
get_property_by_id(rows, id) ==
    IF \E i \in 1..Len(rows) : rows[i].id = id
    THEN CHOOSE i \in 1..Len(rows) : rows[i].id = id
    ELSE 0

\* round(x, 2) of a fraction that is not negative, in hundredths.  The mean of
\* up to three whole numbers and the median of whole numbers never lie
\* halfway between two hundredths.
Round2(x) == (200 * x.num + x.den) \div (2 * x.den)

\* What get_city_statistics returns: "empty" is {}; the averages and the
\* median are in hundredths
NoCityStatistics ==
    [k |-> "empty", total_properties |-> 0, avg_price |-> 0, median_price |-> 0,
     min_price |-> 0, max_price |-> 0, avg_sqft |-> 0, avg_price_per_sqft |-> 0,
     active_listings |-> 0]

\* get_city_statistics(db, city)
get_city_statistics(rows, city) ==
    LET properties == SelectSeq(rows, LAMBDA p : p.city = city)
        prices == TruthyValues([i \in DOMAIN properties |-> properties[i].list_price])
        sqfts == TruthyValues([i \in DOMAIN properties |-> properties[i].sqft])
        ppsf == TruthyValues([i \in DOMAIN properties |-> properties[i].price_per_sqft])
        sorted == Sorted(prices)
    IN  IF properties = <<>> THEN NoCityStatistics
        ELSE [k |-> "full", total_properties |-> Len(properties),
              avg_price |-> IF prices # <<>> THEN Round2(Mean(prices)) ELSE 0,
              median_price |-> IF prices # <<>> THEN Round2(Median(prices)) ELSE 0,
              min_price |-> IF prices # <<>> THEN sorted[1] ELSE 0,
              max_price |-> IF prices # <<>> THEN sorted[Len(sorted)] ELSE 0,
              avg_sqft |-> IF sqfts # <<>> THEN Round2(Mean(sqfts)) ELSE 0,
              avg_price_per_sqft |-> IF ppsf # <<>> THEN Round2(Mean(ppsf)) ELSE 0,
              active_listings |->
                  Len(SelectSeq(properties, LAMBDA p : p.status = "Active"))]

\* The street statistics get_property_analysis computes for row i: those of
\* the street name extracted from its address, in its city
analysis_street_stats(rows, i) ==
    calculate_street_stats(rows, extract_street_name(rows[i].address), rows[i].city)

\* The property_data dict get_property_analysis builds from the row: every key
\* is present, a NULL column as None
PropertyData(p) ==
    [id |-> Val(p.id), address |-> p.address, city |-> p.city, sqft |-> p.sqft,
     year_built |-> p.year_built, list_price |-> p.list_price,
     price_per_sqft |-> p.price_per_sqft, days_on_market |-> p.days_on_market,
     features |-> IF p.features.k = "val" /\ DOMAIN p.features.m # {}
                  THEN p.features ELSE FMap(<<>>)]

NoAnalysis ==
    [status |-> "none", property |-> <<>>, scores |-> <<>>, ai_scores |-> <<>>,
     street_stats |-> EmptyStats, street_comparison |-> <<>>,
     nearby_properties |-> <<>>]

\* get_property_analysis(db, property_id): status "not_found" is the empty
\* dict, "raised" an exception that leaves the handler.  With the population
\* growth get_neighborhood_data returns (2.3) the growth score has one decimal
\* and only the risk score can be a rounding tie, so one tie outcome serves.
get_property_analysis(rows, id, tie) ==
    LET i == get_property_by_id(rows, id)
        property_data == PropertyData(rows[i])
        street_stats == analysis_street_stats(rows, i)
        scores == calculate_property_scores(property_data, street_stats)
        comparison == compare_to_street(property_data, street_stats)
        ai_scores == calculate_ai_scores(property_data, street_stats,
                                         SampleNeighborhood, tie, tie)
        nearby == get_nearby_properties(rows, rows[i].latitude, rows[i].longitude, 3)
    IN  IF i = 0 THEN [NoAnalysis EXCEPT !.status = "not_found"]
        ELSE IF scores.raised \/ comparison.raised \/ ai_scores.raised
        THEN [NoAnalysis EXCEPT !.status = "raised"]
        ELSE [status |-> "ok", property |-> property_data, scores |-> scores,
              ai_scores |-> ai_scores, street_stats |-> street_stats,
              street_comparison |-> comparison,
              nearby_properties |-> SubSeq(nearby, 1, Min(10, Len(nearby)))]

\* all_analytics = {**analysis['scores'], **analysis['ai_scores']}
AllAnalytics(analysis) ==
    Analytics(Val(analysis.ai_scores.ai_valuation_score),
              Val(analysis.ai_scores.ai_growth_score),
              Val(analysis.ai_scores.ai_risk_score),
              Val(analysis.scores.rental_yield),
              Val(analysis.scores.appreciation_rate),
              Val(analysis.scores.demand_index),
              Val(analysis.scores.amenity_score),
              Val(analysis.scores.structural_score))

-----------------------------------------------------------------------------
(* Requests                                                                 *)

\* The request handled last.  For a sync: what it returned (count), how many
\* rows it inserted and updated, and of the fetched batch: its length, the
\* items that carry an address (their number and their addresses), whether
\* an item without one precedes an item with one, and what a second call of
\* sync_properties with the same fetched batch inserts and leaves as rows.
\* For a proximity search: its centre, its radius and the ids it returned.
\* For a lookup and a listing: the ids of the rows returned.  For a city
\* summary: the city and the statistics.
Idle ==
    [op |-> "none", id |-> 0, status |-> "none", fetched |-> 0, wellformed |-> 0,
     point |-> Point(0, 0), radius_miles |-> 0, found |-> <<>>,
     keys |-> {}, resumed |-> FALSE, again_inserted |-> 0, again_rows |-> 0,
     rows_before |-> 0, count |-> 0, inserted |-> 0, updated |-> 0,
     analysis |-> NoAnalysis, gen |-> "none", gen_called |-> FALSE,
     report |-> NoReport, city |-> "", statistics |-> NoCityStatistics]

NoCall == [fn |-> "none"]

\* The items of a batch that carry an 'address' key
WellFormed(batch) == {i \in DOMAIN batch : batch[i].address.k # "absent"}

\* POST /properties/sync/{city}: the fetch returns properties_data
Sync(properties_data, pick) ==
    /\ \E st \in {sync_properties(store, properties_data, autoflush, pick)} :
       /\ Len(st.s.rows) <= MaxRows
       /\ \E again \in {sync_properties(st.s.rows, properties_data, autoflush, pick)} :
           /\ store' = st.s.rows
           /\ last' = [Idle EXCEPT
                          !.op = "sync", !.status = "ok",
                          !.fetched = Len(properties_data),
                          !.wellformed = Cardinality(WellFormed(properties_data)),
                          !.keys = {properties_data[i].address.a :
                                        i \in WellFormed(properties_data)},
                          !.resumed = \E i \in WellFormed(properties_data) :
                                          \E j \in 1..(i - 1) :
                                              j \notin WellFormed(properties_data),
                          !.again_inserted = again.inserted,
                          !.again_rows = Len(again.s.rows),
                          !.rows_before = Len(store),
                          !.count = st.count, !.inserted = st.inserted,
                          !.updated = st.updated]
    /\ UNCHANGED <<autoflush, client, call>>

\* Analyze that writes the scores it recomputed back to the row and commits
Analyze_StoresScores(id, tie) ==
    /\ \E analysis \in {get_property_analysis(store, id, tie)} :
           /\ last' = [Idle EXCEPT !.op = "analyze", !.id = id,
                                   !.status = analysis.status, !.analysis = analysis]
           /\ store' = IF analysis.status # "ok" THEN store
                       ELSE [store EXCEPT ![get_property_by_id(store, id)].scores =
                                              ScoreColumns(analysis.scores)]
    /\ UNCHANGED <<autoflush, client, call>>

\* GET /properties/{property_id}/analysis
Analyze(id, tie) ==
    /\ \E analysis \in {get_property_analysis(store, id, tie)} :
           last' = [Idle EXCEPT !.op = "analyze", !.id = id,
                                !.status = analysis.status, !.analysis = analysis]
    /\ UNCHANGED <<store, autoflush, client, call>>

\* GET /properties/nearby/search
Nearby(latitude, longitude, radius_miles) ==
    /\ last' = [Idle EXCEPT
                   !.op = "nearby", !.status = "ok",
                   !.point = Point(latitude, longitude),
                   !.radius_miles = radius_miles,
                   !.found = get_nearby_properties(store, latitude, longitude,
                                                   radius_miles)]
    /\ UNCHANGED <<store, autoflush, client, call>>

\* GET /properties/{property_id}: 404 when the service returns None
GetProperty(id) ==
    /\ \E i \in {get_property_by_id(store, id)} :
           last' = [Idle EXCEPT !.op = "lookup", !.id = id,
                                !.status = IF i = 0 THEN "not_found" ELSE "ok",
                                !.found = IF i = 0 THEN <<>> ELSE <<store[i].id>>]
    /\ UNCHANGED <<store, autoflush, client, call>>

\* GET /properties/ with a city and a bedroom filter
GetProperties(city, min_beds, skip, limit) ==
    /\ \E hits \in {get_properties(store, Filters(city, NoneV, NoneV, NoneV, min_beds, NoneV),
                                    skip, limit)} :
           last' = [Idle EXCEPT !.op = "listing", !.status = "ok",
                                !.found = [n \in 1..Len(hits) |-> store[hits[n]].id]]
    /\ UNCHANGED <<store, autoflush, client, call>>

\* GET /properties/city/{city}/stats: 404 when the service returns {}
GetCityStatistics(city) ==
    /\ \E stats \in {get_city_statistics(store, city)} :
           last' = [Idle EXCEPT !.op = "city", !.city = city,
                                !.status = IF stats.k = "empty" THEN "not_found" ELSE "ok",
                                !.statistics = stats]
    /\ UNCHANGED <<store, autoflush, client, call>>

\* generate_audit(db, property_id) for an analysis that is not empty
generate_audit(analysis, hasClient, gen) ==
    generate_investment_audit(hasClient, gen, analysis.property, AllAnalytics(analysis))

\* POST /properties/{property_id}/audit
Audit(id, tie, gen) ==
    /\ \E analysis \in {get_property_analysis(store, id, tie)} :
           IF analysis.status # "ok"
           THEN last' = [Idle EXCEPT !.op = "audit", !.id = id,
                                     !.status = analysis.status, !.analysis = analysis]
           ELSE \E audit \in {generate_audit(analysis, client, gen)} :
                    last' = [Idle EXCEPT !.op = "audit", !.id = id,
                                         !.status = IF audit.raised THEN "raised" ELSE "ok",
                                         !.analysis = analysis, !.gen = gen,
                                         !.gen_called = TRUE, !.report = audit]
    /\ UNCHANGED <<store, autoflush, client, call>>

\* The settings of the Session that get_db hands to the handlers: whether a
\* Query flushes the pending objects before it runs (autoflush)
SessionConfigs == BOOLEAN

Init ==
    /\ store = <<>>
    /\ autoflush \in SessionConfigs
    /\ client \in BOOLEAN
    /\ last = Idle
    /\ call = NoCall

\* Which of several rows with one address a query returns first only matters
\* when the table holds such rows.
Picks == IF \E i, j \in 1..Len(store) : i # j /\ store[i].address = store[j].address
         THEN {"lowest", "highest"} ELSE {"lowest"}

\* The ids requested: those of the rows and one that no row has.
Ids == 1..(Len(store) + 1)

\* The generative path is taken only by a service that has a client.
Attempts == IF client THEN GenOutcomes ELSE {"none"}

\* The centres searched: the coordinates the fetched listings carry.
Centres == {Point(i.latitude, i.longitude) : i \in Items}

\* radius_miles: float = Query(0.5, ge=0.1, le=5), in tenths of a mile
MinRadius == 1
MaxRadius == 50

SyncRequest == \E b \in Batches, pick \in Picks : Sync(b, pick)
NearbyRequest == \E c \in Centres, r \in {MinRadius, MaxRadius} : Nearby(c.latitude, c.longitude, r)
AnalyzeRequest == \E id \in Ids, tie \in {0, 1} : Analyze(id, tie)
AuditRequest == \E id \in Ids, tie \in {0, 1}, gen \in Attempts : Audit(id, tie, gen)

LookupRequest == \E id \in Ids : GetProperty(id)
ListingRequest == \E city \in {NoneV, Val("Plano")}, min_beds \in {NoneV, Val(4)}, limit \in {1, 100} : GetProperties(city, min_beds, 0, limit)
CityRequest == \E city \in {"Plano", "Dallas"} : GetCityStatistics(city)

Next ==
    \/ SyncRequest \/ AnalyzeRequest \/ AuditRequest \/ NearbyRequest
    \/ LookupRequest \/ ListingRequest \/ CityRequest

Spec == Init /\ [][Next]_vars

-----------------------------------------------------------------------------
(* The scoring engine and the template, called on their own: one call per    *)
(* behaviour, on inputs drawn from the sets below                           *)

\* Feature keys outside amenity_weights
UnknownKeys == {"view", "balcony"}

\* Bounds of the inputs drawn for the calls
MaxKeys == 2
MaxGarage == 3
MaxAge == 60
MaxPpsf == 24
MaxDays == 4

FlagValues ==
    {FBool(TRUE), FBool(FALSE), FStr(TRUE)} \cup {FInt(n) : n \in (0 - MaxGarage)..MaxGarage}

AllAmenities == [a \in AmenityKeys |-> IF a = "garage" THEN FInt(MaxGarage) ELSE FBool(TRUE)]

\* The features maps of at most max_keys keys, None, and the map of every
\* amenity
FeatureMaps(max_keys) ==
    {FNone, FMap(AllAmenities)} \cup
    {FMap(m) : m \in UNION {[K -> FlagValues] :
                              K \in {K \in SUBSET (AmenityKeys \cup UnknownKeys) :
                                        Cardinality(K) <= max_keys}}}

Years == {NoneV} \cup {Val(y) : y \in {0} \cup ((current_year - MaxAge)..(current_year + 1))}
Areas == {NoneV} \cup {Val(a) : a \in {100 * i : i \in 0..50} \cup
                                      {1499, 1999, 2001, 3499, 3501, 4499, 4501}}

PpsfValues == {NoneV} \cup {Val(p) : p \in (0..MaxPpsf) \cup {100}}
Averages == {Rat(n, d) : n \in (0..MaxPpsf) \cup {100}, d \in {1, 2}}
StatsValues == {EmptyStats} \cup {FullStats(1, RatZero, RatZero, a, StdZero, RatZero) : a \in Averages}

\* A property_data dict with only the keys calculate_ai_scores reads
ScoredData(ppsf, year_built, days_on_market) ==
    [id |-> AbsentV, address |-> <<>>, city |-> "", sqft |-> AbsentV,
     year_built |-> year_built, list_price |-> AbsentV, price_per_sqft |-> ppsf,
     days_on_market |-> days_on_market, features |-> FAbsent]

AiPpsf == {AbsentV, NoneV} \cup {Val(p) : p \in {0, 170, 180, 189, 190, 200, 210, 211, 220, 221}}
AiStats == {EmptyStats} \cup {FullStats(1, RatZero, RatZero, Rat(n, 1), StdZero, RatZero) : n \in {0, 200}}
AiYears == {AbsentV, Val(0), Val(1990), Val(2024), Val(2124)}
AiDays == {AbsentV} \cup {Val(d) : d \in (0..MaxDays) \cup {200}}
AiNeighborhoods ==
    {SampleNeighborhood, EmptyNeighborhood, Neighborhood(Val(80), Val(0)),
     Neighborhood(Val(-20), Val(1000))}

\* A property_data dict with only the keys _generate_sample_audit reads
ReportedData(id, list_price, ppsf, sqft) ==
    [id |-> id, address |-> ParkBlvd1000.a, city |-> "Plano", sqft |-> sqft,
     year_built |-> AbsentV, list_price |-> list_price, price_per_sqft |-> ppsf,
     days_on_market |-> AbsentV, features |-> FAbsent]

ReportedDatas ==
    {ReportedData(Val(1), Val(400000), Val(200), Val(2000)),
     ReportedData(AbsentV, AbsentV, AbsentV, AbsentV),
     ReportedData(Val(1), NoneV, Val(200), Val(2000))}

ValuationScores == {AbsentV} \cup {Val(v) : v \in {0, 600, 700, 1000} \cup (745..755)
                                                   \cup (795..805) \cup (845..855)}
GrowthScores == {AbsentV} \cup {Val(g) : g \in {-5257, 0, 1000} \cup (797..803)}
RiskScores == {AbsentV} \cup {Val(r) : r \in {0, 352, 399, 400, 1000}}

CallAmenity ==
    /\ call.fn = "none"
    /\ \E features \in FeatureMaps(MaxKeys) :
           call' = [fn |-> "amenity", features |-> features,
                    result |-> calculate_amenity_score(features)]
    /\ UNCHANGED <<store, autoflush, client, last>>

CallStructural ==
    /\ call.fn = "none"
    /\ \E year_built \in Years, sqft \in Areas :
           call' = [fn |-> "structural", year_built |-> year_built, sqft |-> sqft,
                    result |-> calculate_structural_score(year_built, sqft)]
    /\ UNCHANGED <<store, autoflush, client, last>>

CallLocation ==
    /\ call.fn = "none"
    /\ \E ppsf \in PpsfValues, street_stats \in StatsValues :
           call' = [fn |-> "location", price_per_sqft |-> ppsf, street_stats |-> street_stats,
                    result |-> calculate_location_score(ppsf, street_stats)]
    /\ UNCHANGED <<store, autoflush, client, last>>

CallAiScores ==
    /\ call.fn = "none"
    /\ \E ppsf \in AiPpsf, year_built \in AiYears, days \in AiDays, st \in AiStats,
          nb \in AiNeighborhoods, tieG \in {0, 1}, tieR \in {0, 1} :
           call' = [fn |-> "ai_scores", property_data |-> ScoredData(ppsf, year_built, days),
                    street_stats |-> st, neighborhood_data |-> nb,
                    result |-> calculate_ai_scores(ScoredData(ppsf, year_built, days),
                                                   st, nb, tieG, tieR)]
    /\ UNCHANGED <<store, autoflush, client, last>>

CallSampleAudit ==
    /\ call.fn = "none"
    /\ \E pd \in ReportedDatas, v \in ValuationScores, g \in GrowthScores, r \in RiskScores :
         \E analytics \in {Analytics(v, g, r, Val(432), Val(38), Val(70), Val(68), Val(940)),
                           Analytics(v, g, r, AbsentV, AbsentV, AbsentV, AbsentV, AbsentV)} :
           call' = [fn |-> "sample_audit", property_data |-> pd, analytics |-> analytics,
                    result |-> generate_sample_audit(pd, analytics)]
    /\ UNCHANGED <<store, autoflush, client, last>>

\* A property_data dict with only the keys _calculate_investment_metrics reads
MetricsData(sqft, list_price, year_built, days_on_market) ==
    [id |-> AbsentV, address |-> <<>>, city |-> "", sqft |-> sqft,
     year_built |-> year_built, list_price |-> list_price, price_per_sqft |-> AbsentV,
     days_on_market |-> days_on_market, features |-> FAbsent]

MetricsAreas == {AbsentV, Val(0), Val(2000)}
MetricsPrices == {AbsentV, NoneV, Val(0), Val(400000)}

CallInvestmentMetrics ==
    /\ call.fn = "none"
    /\ \E sqft \in MetricsAreas, price \in MetricsPrices, year_built \in AiYears,
          days \in AiDays :
           call' = [fn |-> "metrics",
                    property_data |-> MetricsData(sqft, price, year_built, days),
                    result |-> calculate_investment_metrics(
                                   MetricsData(sqft, price, year_built, days))]
    /\ UNCHANGED <<store, autoflush, client, last>>

\* A row with only the columns calculate_street_stats reads
StatRow(address, city, list_price, price_per_sqft, sqft) ==
    [address |-> address, city |-> city, list_price |-> list_price,
     price_per_sqft |-> price_per_sqft, sqft |-> sqft]

CoitRd7 == Addr(<<"7", "Coit", "Rd", ",", "Plano", ",", "TX">>)

\* Rows on Park Blvd in Plano with or without a price and an area (0 is what
\* the external-API transformation stores for a missing building size), and
\* one row on another street
StatRows ==
    {StatRow(ParkBlvd1000.a, "Plano", Val(100), Val(1), Val(2000)),
     StatRow(ParkBlvd1000.a, "Plano", Val(200), Val(2), Val(0)),
     StatRow(ParkBlvd1000.a, "Plano", Val(300), Val(3), NoneV),
     StatRow(ParkBlvd1000.a, "Plano", NoneV, NoneV, Val(2000)),
     StatRow(ParkBlvd1000.a, "Plano", Val(0), Val(0), Val(1000)),
     StatRow(CoitRd7.a, "Plano", Val(300), Val(3), Val(2000))}

\* The most rows of a table handed to the aggregation on its own
MaxStatRows == 3

StatTables == SeqsUpTo(StatRows, MaxStatRows)

StatQueries == {<<<<"Park", "Blvd">>, "Plano">>, <<<<"Elm", "St">>, "Plano">>,
                <<<<"Park", "Blvd">>, "Dallas">>}

CallStreetStats ==
    /\ call.fn = "none"
    /\ \E rows \in StatTables, q \in StatQueries :
           call' = [fn |-> "street_stats", rows |-> rows, street_name |-> q[1],
                    city |-> q[2], result |-> calculate_street_stats(rows, q[1], q[2])]
    /\ UNCHANGED <<store, autoflush, client, last>>

\* compare_to_street for a list price against the statistics of Park Blvd
CallCompare ==
    /\ call.fn = "none"
    /\ \E rows \in StatTables, price \in {Val(100), Val(200), Val(250), Val(300)} :
         \E stats \in {calculate_street_stats(rows, <<"Park", "Blvd">>, "Plano")} :
           call' = [fn |-> "compare", rows |-> rows, street_name |-> <<"Park", "Blvd">>,
                    city |-> "Plano", list_price |-> price, street_stats |-> stats,
                    result |-> compare_to_street(
                                   MetricsData(Val(2000), price, AbsentV, AbsentV), stats)]
    /\ UNCHANGED <<store, autoflush, client, last>>

\* The tables one sync of a fetched batch leaves behind
ListTables == {sync_properties(<<>>, b, TRUE, "lowest").s.rows : b \in Batches}

\* GET /properties on a table: skip: int = Query(0, ge=0) and
\* limit: int = Query(100, ge=1, le=500).  A request leaves a query parameter
\* out, gives it empty or as 0, or gives a value that some listings meet and
\* others do not.
CallListing ==
    /\ call.fn = "none"
    /\ \E rows \in ListTables, city \in {NoneV, Val(""), Val("Plano")},
          zip_code \in {NoneV, Val("75023")},
          min_price \in {NoneV, Val(0), Val(350000)},
          max_price \in {NoneV, Val(0), Val(350000)},
          min_beds \in {NoneV, Val(4)}, max_beds \in {NoneV, Val(0), Val(3)},
          skip \in {0, 1}, limit \in {1, 2} :
         \E f \in {Filters(city, zip_code, min_price, max_price, min_beds, max_beds)} :
           call' = [fn |-> "list", rows |-> rows, filters |-> f, skip |-> skip,
                    limit |-> limit, result |-> get_properties(rows, f, skip, limit)]
    /\ UNCHANGED <<store, autoflush, client, last>>

\* The listings the sample generator is let build in one call (the code
\* builds 30)
SampleCount == 2

\* get_properties_by_city on its own, under every configuration
CallFetch ==
    /\ call.fn = "none"
    /\ \E attom_key \in {NoneV, Val(""), Val("key")}, use_sample \in BOOLEAN,
          fetch \in FetchOutcomes, city \in {"Plano", "Dallas"},
          draws \in [1..SampleCount -> {DrawA, DrawB}] :
           call' = [fn |-> "fetch", attom_key |-> attom_key, use_sample |-> use_sample,
                    fetch |-> fetch, city |-> city,
                    result |-> get_properties_by_city(attom_key, use_sample, fetch,
                                                      city, draws)]
    /\ UNCHANGED <<store, autoflush, client, last>>

\* Two syncs of sample data, one after the other, into an empty table.  A
\* draw can repeat the street number of another with a different area and
\* rate, so that the second sync (or a later item of one batch) updates a row.
CallSyncSample ==
    /\ call.fn = "none"
    /\ \E auto \in BOOLEAN, pick \in {"lowest", "highest"} :
       \E first, second \in [1..SampleCount ->
                                 {DrawA, DrawB, [DrawA EXCEPT !.sqft = 2400, !.rate = 250]}] :
       \E before \in {sync_properties(<<>>, get_sample_properties("Plano", first),
                                       auto, pick)} :
       \E after \in {sync_properties(before.s.rows, get_sample_properties("Plano", second),
                                      auto, pick)} :
           call' = [fn |-> "syncs", before |-> before.s.rows, rows |-> after.s.rows,
                    updated |-> before.updated + after.updated]
    /\ UNCHANGED <<store, autoflush, client, last>>

\* One sync of a batch of one item into a table that an earlier sync left.
\* The item is one of the fetched listings, the sample listing of DrawA drawn
\* again with another area, rate, age and kitchen, or a listing of the
\* external API (no price, days, status or features key) whose one-line
\* address is that of a sample listing.
CallSyncOne ==
    /\ call.fn = "none"
    /\ \E rows \in ListTables, auto \in BOOLEAN,
          item \in Items \cup
                   {SampleProperty("Plano", [DrawA EXCEPT !.sqft = 2400, !.rate = 250,
                                                          !.year_built = 1995,
                                                          !.updated_kitchen = FALSE]),
                    [AttomC EXCEPT !.address = ParkBlvd1000]} :
       \E st \in {sync_properties(rows, <<item>>, auto, "lowest")} :
           call' = [fn |-> "syncone", before |-> rows, item |-> item, rows |-> st.s.rows,
                    inserted |-> st.inserted, updated |-> st.updated]
    /\ UNCHANGED <<store, autoflush, client, last>>

\* The street statistics of an analysis, for every row of a table that one
\* sync leaves.  The external API can return a one-line address with two
\* spaces between two words: "5 MAIN  ST, PLANO, TX 75023".
CallAnalysisStreetStats ==
    /\ call.fn = "none"
    /\ \E b \in SeqsUpTo(Items \cup {[AttomC EXCEPT !.address =
                 Addr(<<"5", "MAIN", "", "ST", ",", "PLANO", ",", "TX", "75023">>)]},
                          MaxBatch) :
       \E rows \in {sync_properties(<<>>, b, TRUE, "lowest").s.rows} :
       \E i \in 1..Len(rows) :
           call' = [fn |-> "analysis_street_stats", rows |-> rows, i |-> i,
                    result |-> analysis_street_stats(rows, i)]
    /\ UNCHANGED <<store, autoflush, client, last>>

\* Lines of a response text: "### EXECUTIVE SUMMARY", a prose line that
\* mentions the executive summary, "## Valuation", an empty line and two
\* prose lines
SummaryLines ==
    {Line(<<"EXECUTIVE", "SUMMARY">>, 3, TRUE, TRUE),
     Line(<<"Executive", "summary:", "a", "solid", "buy">>, 0, FALSE, TRUE),
     Line(<<"Valuation">>, 2, FALSE, FALSE),
     BlankLine,
     Line(<<"Priced", "below", "the", "street">>, 0, FALSE, FALSE),
     Line(<<"Demand", "is", "steady">>, 0, FALSE, FALSE)}

\* Lines of a report text: "### EXECUTIVE SUMMARY", "## Valuation",
\* "RISK ASSESSMENT", "###", an empty line and a prose line
SectionLines ==
    {Line(<<"EXECUTIVE", "SUMMARY">>, 3, TRUE, TRUE),
     Line(<<"Valuation">>, 2, FALSE, FALSE),
     Line(<<"RISK", "ASSESSMENT">>, 0, TRUE, FALSE),
     Line(<<>>, 3, FALSE, FALSE),
     BlankLine,
     Line(<<"Priced", "below", "the", "street">>, 0, FALSE, FALSE)}

\* The most lines of a text handed to the extraction and to the parsing
MaxLines == 5

\* audit_text.split('\n') has at least one line
Texts(alphabet, n) == SeqsUpTo(alphabet, n) \ {<<>>}

CallExtractSummary ==
    /\ call.fn = "none"
    /\ \E lines \in Texts(SummaryLines, MaxLines) :
           call' = [fn |-> "summary", lines |-> lines, result |-> extract_summary(lines)]
    /\ UNCHANGED <<store, autoflush, client, last>>

CallParseSections ==
    /\ call.fn = "none"
    /\ \E lines \in Texts(SectionLines, MaxLines) :
           call' = [fn |-> "sections", lines |-> lines,
                    result |-> parse_audit_sections(lines)]
    /\ UNCHANGED <<store, autoflush, client, last>>

InitScore ==
    /\ store = <<>>
    /\ autoflush = TRUE
    /\ client = FALSE
    /\ last = Idle
    /\ call = NoCall

NextScore ==
    \/ CallAmenity \/ CallStructural \/ CallLocation \/ CallAiScores \/ CallSampleAudit
    \/ CallInvestmentMetrics \/ CallStreetStats \/ CallCompare
    \/ CallListing \/ CallFetch \/ CallExtractSummary \/ CallParseSections
    \/ CallSyncSample \/ CallSyncOne \/ CallAnalysisStreetStats

SpecScore == InitScore /\ [][NextScore]_vars

-----------------------------------------------------------------------------
(* Two sync requests handled by one process.  The handler is a coroutine of  *)
(* the event loop: it runs until it awaits, and sync_properties awaits only  *)
(* the fetch; the Session is synchronous, so a query, an add and the commit  *)
(* block the loop instead of yielding it.  call.running is the request whose *)
(* coroutine holds the loop, 0 when the loop is free.                        *)

Requests == {1, 2}

InitSync ==
    /\ store = <<>>
    /\ autoflush \in SessionConfigs
    /\ client = FALSE
    /\ last = Idle
    /\ call = [fn |-> "requests", running |-> 0,
               pc |-> [r \in Requests |-> "arrived"],
               fetched |-> [r \in Requests |-> <<>>],
               todo |-> [r \in Requests |-> <<>>],
               st |-> [r \in Requests |-> SyncState(Session(<<>>, <<>>), 0, 0, 0)]]

\* The handler of request r is entered and awaits get_properties_by_city
SyncStart(r) ==
    /\ call.running = 0 /\ call.pc[r] = "arrived"
    /\ call' = [call EXCEPT !.pc[r] = "fetching"]
    /\ UNCHANGED <<store, autoflush, client, last>>

\* The fetch of request r has returned properties_data and its coroutine is
\* resumed: count = 0 and the loop begins
SyncResume(r, properties_data) ==
    /\ call.running = 0 /\ call.pc[r] = "fetching"
    /\ call' = [call EXCEPT !.running = r, !.pc[r] = "loop",
                            !.fetched[r] = properties_data,
                            !.todo[r] = properties_data,
                            !.st[r] = SyncState(Session(store, <<>>), 0, 0, 0)]
    /\ UNCHANGED <<store, autoflush, client, last>>

\* One pass of the for loop of request r
SyncStep(r) ==
    /\ call.running = r /\ call.pc[r] = "loop" /\ call.todo[r] # <<>>
    /\ call' = [call EXCEPT !.st[r] = SyncItem(@, Head(call.todo[r]), autoflush, "lowest"),
                            !.todo[r] = Tail(@)]
    /\ UNCHANGED <<store, autoflush, client, last>>

\* db.commit() and the return of request r
SyncCommit(r) ==
    /\ call.running = r /\ call.pc[r] = "loop" /\ call.todo[r] = <<>>
    /\ store' = Flush(call.st[r].s).rows
    /\ call' = [call EXCEPT !.running = 0, !.pc[r] = "done"]
    /\ UNCHANGED <<autoflush, client, last>>

NextSync ==
    \E r \in Requests :
        \/ SyncStart(r)
        \/ \E b \in Batches : SyncResume(r, b)
        \/ SyncStep(r)
        \/ SyncCommit(r)

SpecSync == InitSync /\ [][NextSync]_vars

-----------------------------------------------------------------------------
(* Properties                                                               *)

Abs(x) == IF x < 0 THEN 0 - x ELSE x

HasId(rows, id) == \E i \in 1..Len(rows) : rows[i].id = id

\* C1: after any sequence of syncs from the empty table no two rows share an
\* address, and calling sync a second time with the same fetched batch
\* inserts nothing and leaves the number of rows unchanged.
C1_SyncNoDuplicateAddress ==
    /\ \A i, j \in 1..Len(store) : i # j => store[i].address # store[j].address
    /\ last.op = "sync" => (last.again_inserted = 0 /\ last.again_rows = Len(store))

\* C2: sync returns the number of items inserted or updated without raising;
\* an item that raises is skipped and not counted, the items after it are
\* still processed, and the commit after the last item makes every one of
\* them a row.  (Of the items drawn only the one without an 'address' key
\* raises: KeyError at the query.)
C2_SyncCountsProcessed ==
    last.op = "sync" =>
        /\ last.count = last.wellformed
        /\ last.count = last.inserted + last.updated
        /\ Len(store) = last.rows_before + last.inserted
        /\ \A a \in last.keys : \E r \in 1..Len(store) : store[r].address = a

\* a batch in which an item raises and a later item is processed and committed
C2_Witness ==
    /\ last.op = "sync"
    /\ last.resumed
    /\ last.fetched = 2 /\ last.count = 1 /\ last.inserted = 1
    /\ \E r \in 1..Len(store) : store[r].address \in last.keys

\* C3: analyze and audit answer not-found exactly when no row has the id, and
\* answer with an Analysis / Audit Report (never an exception) for every row.
C3_AnalyzeTotalOnRows ==
    last.op \in {"analyze", "audit"} =>
        /\ (last.status = "not_found") <=> ~HasId(store, last.id)
        /\ HasId(store, last.id) => last.status = "ok"

\* C4: once generate_investment_audit is called it returns a report; without
\* a client, or when the generative call or the parsing of its response
\* fails, that report is the template report of the same inputs.
C4_AuditFallsBackToTemplate ==
    (last.op = "audit" /\ last.gen_called) =>
        /\ last.status = "ok"
        /\ ~last.report.raised
        /\ (~client \/ last.gen # "ok") =>
               /\ last.report.strategy = "template"
               /\ last.report = generate_sample_audit(last.analysis.property,
                                                      AllAnalytics(last.analysis))
               /\ last.report.property_id = Val(last.id)
               /\ last.report.valuation_score = last.analysis.ai_scores.ai_valuation_score
               /\ last.report.sections = TemplateSections(last.analysis.property.address)

\* a configured client whose completion call raises
C4_Witness ==
    /\ last.op = "audit" /\ last.gen_called
    /\ client /\ last.gen = "call_raises"
    /\ last.report.strategy = "template"

\* C5: the template's recommendation is STRONG BUY iff valuation > 85 and
\* growth > 80, HOLD iff valuation <= 75, BUY otherwise, and the thesis field
\* opens with the recommendation the report text prints.
C5_Recommendation ==
    (call.fn = "sample_audit" /\ ~call.result.raised) =>
        LET v == call.result.valuation_score
            g == call.result.growth_score
            rec == call.result.full_report.recommendation
        IN  /\ rec \in {"STRONG BUY", "BUY", "HOLD"}
            /\ (rec = "STRONG BUY") <=> (v > 850 /\ g > 800)
            /\ (rec = "HOLD") <=> (v <= 750)
            /\ call.result.investment_thesis.recommendation = rec

C5_Witness ==
    /\ call.fn = "sample_audit" /\ ~call.result.raised
    /\ call.result.valuation_score = 851 /\ call.result.growth_score = 801
    /\ call.result.full_report.recommendation = "STRONG BUY"

\* C6: overall_score of a template report is the mean of its own valuation,
\* growth and 100 - risk, rounded to one decimal; the three default to 75, 70
\* and 35 when the analytics lack them.
C6_OverallScore ==
    (call.fn = "sample_audit" /\ ~call.result.raised) =>
        LET rep == call.result
            s == rep.valuation_score + rep.growth_score + (1000 - rep.risk_score)
            a == call.analytics
        IN  /\ Abs(3 * rep.overall_score - s) <= 1
            /\ rep.valuation_score = IF a.ai_valuation_score.k = "absent" THEN 750
                                     ELSE a.ai_valuation_score.v
            /\ rep.growth_score = IF a.ai_growth_score.k = "absent" THEN 700
                                  ELSE a.ai_growth_score.v
            /\ rep.risk_score = IF a.ai_risk_score.k = "absent" THEN 350
                                ELSE a.ai_risk_score.v

\* the defaults: (75 + 70 + 65) / 3 = 70.0
C6_Witness ==
    /\ call.fn = "sample_audit" /\ ~call.result.raised
    /\ call.analytics.ai_valuation_score.k = "absent"
    /\ call.analytics.ai_growth_score.k = "absent"
    /\ call.analytics.ai_risk_score.k = "absent"
    /\ call.result.overall_score = 700

\* C7: amenity_score lies in [50, 100] for every feature map, is 50 for an
\* empty or absent map and 60 for {pool: true}, and ignores unknown keys.
C7_AmenityRange ==
    call.fn = "amenity" =>
        LET f == call.features
            known == [a \in DOMAIN f.m \cap AmenityKeys |-> f.m[a]]
        IN  /\ 50 <= call.result /\ call.result <= 100
            /\ (f.k # "val" \/ DOMAIN f.m = {}) => call.result = 50
            /\ (f.k = "val" /\ DOMAIN f.m = {"pool"} /\ f.m["pool"] = FBool(TRUE)) =>
                   call.result = 60
            /\ f.k = "val" => call.result = calculate_amenity_score(FMap(known))

\* C8: structural_score is 0.6 * age_score + 0.4 * size_score with the age and
\* size steps of the specification, lies in [64, 100], and is 100 for a home
\* built this year with 2800 sq ft.
C8_StructuralScore ==
    (call.fn = "structural" /\ IsNum(call.year_built) /\ IsNum(call.sqft)) =>
        LET age == current_year - call.year_built.v
            area == call.sqft.v
            age_score == CASE age < 5 -> 100
                           [] age >= 5 /\ age < 10 -> 95
                           [] age >= 10 /\ age < 20 -> 85
                           [] age >= 20 /\ age < 30 -> 75
                           [] age >= 30 /\ age < 50 -> 65
                           [] age >= 50 -> 60
            size_score == CASE area >= 2000 /\ area <= 3500 -> 100
                            [] area >= 1500 /\ area < 2000 -> 90
                            [] area > 3500 /\ area <= 4500 -> 90
                            [] area < 1500 -> 70
                            [] area > 4500 -> 75
        IN  /\ ~call.result.raised
            /\ call.result.v = 6 * age_score + 4 * size_score
            /\ 640 <= call.result.v /\ call.result.v <= 1000
            /\ (age = 0 /\ area = 2800) => call.result.v = 1000

C8_Witness ==
    /\ call.fn = "structural"
    /\ call.year_built = Val(current_year) /\ call.sqft = Val(2800)
    /\ call.result = [raised |-> FALSE, v |-> 1000]

\* C9: location_score is 75 whenever the baseline average price per area is 0,
\* whatever the price per area; otherwise it is the band value of
\* ratio = price_per_area / average; it lies in [70, 100]; 100 against 100
\* gives 100.
C9_LocationScore ==
    (call.fn = "location" /\ call.street_stats.k = "full") =>
        LET avg == call.street_stats.avg_price_per_sqft
            p == call.price_per_sqft
            x == 100 * p.v * avg.den      \* ratio = x / (100 * avg.num)
            n == avg.num
            band == CASE 95 * n <= x /\ x <= 105 * n -> 100
                      [] 85 * n <= x /\ x < 95 * n -> 95
                      [] 105 * n < x /\ x <= 115 * n -> 90
                      [] x < 85 * n -> 80
                      [] x > 115 * n -> 70
        IN  /\ n = 0 => call.result = [raised |-> FALSE, v |-> 75]
            /\ (n > 0 /\ IsNum(p)) =>
                   /\ call.result = [raised |-> FALSE, v |-> band]
                   /\ 70 <= call.result.v /\ call.result.v <= 100
            /\ (p = Val(100) /\ avg = Rat(100, 1)) => call.result.v = 100

\* a price per area of 100 against a baseline average of 0
C9_Witness ==
    /\ call.fn = "location" /\ call.street_stats.k = "full"
    /\ call.street_stats.avg_price_per_sqft.num = 0
    /\ call.price_per_sqft = Val(100)
    /\ call.result = [raised |-> FALSE, v |-> 75]

\* The inputs on which the formulas of ai_scores are defined, and the values
\* they take: every field a number or missing, the baseline average not 0.
AiDefined ==
    /\ call.fn = "ai_scores"
    /\ call.property_data.price_per_sqft.k # "none"
    /\ call.street_stats.k = "full" => call.street_stats.avg_price_per_sqft.num > 0
AiPpsfOf == IF call.property_data.price_per_sqft.k = "absent" THEN 200
            ELSE call.property_data.price_per_sqft.v
AiAvgOf == IF call.street_stats.k = "full" THEN call.street_stats.avg_price_per_sqft
           ELSE Rat(200, 1)
AiValuationOf ==
    LET x == 100 * AiPpsfOf * AiAvgOf.den
        n == AiAvgOf.num
    IN  CASE x < 90 * n -> 900
          [] 90 * n <= x /\ x < 95 * n -> 850
          [] 95 * n <= x /\ x <= 105 * n -> 800
          [] 105 * n < x /\ x <= 110 * n -> 700
          [] x > 110 * n -> 600
\* min(70 + 5 * population_growth - 0.3 * (2024 - year_built), 100), hundredths
AiGrowthOf ==
    LET pg == IF call.neighborhood_data.population_growth.k = "absent" THEN 20
              ELSE call.neighborhood_data.population_growth.v
        yb == IF call.property_data.year_built.k = "absent" THEN 2000
              ELSE call.property_data.year_built.v
    IN  Min(7000 + 50 * pg - 30 * (2024 - yb), 10000)
\* min(50 + 0.3 * days_on_market + 0.5 * crime_rate, 100), hundredths
AiRiskOf ==
    LET dom == IF call.property_data.days_on_market.k = "absent" THEN 30
               ELSE call.property_data.days_on_market.v
        cr == IF call.neighborhood_data.crime_rate.k = "absent" THEN 150
              ELSE call.neighborhood_data.crime_rate.v
    IN  Min(5000 + 30 * dom + 5 * cr, 10000)

\* C10 as stated: valuation is the band value of the ratio, growth is exactly
\* min(70 + 5 * population_growth - 0.3 * (2024 - year_built), 100) and risk
\* exactly min(50 + 0.3 * days_on_market + 0.5 * crime_rate, 100), with the
\* defaults 2000, 30, 2.0 and 15 for a missing field.
C10_AiScoresExact ==
    AiDefined =>
        /\ ~call.result.raised
        /\ call.result.ai_valuation_score = AiValuationOf
        /\ 10 * call.result.ai_growth_score = AiGrowthOf
        /\ 10 * call.result.ai_risk_score = AiRiskOf

\* C10 as amended: growth and risk are those values rounded to one decimal.
C10_AiScoresRounded ==
    AiDefined =>
        /\ ~call.result.raised
        /\ call.result.ai_valuation_score = AiValuationOf
        /\ Abs(10 * call.result.ai_growth_score - AiGrowthOf) <= 5
        /\ Abs(10 * call.result.ai_risk_score - AiRiskOf) <= 5

\* the neighborhood data the service supplies (crime rate 12.5) and a record
\* without year_built and days_on_market: risk 50 + 9 + 6.25 = 65.25
C10_Witness ==
    /\ AiDefined
    /\ call.neighborhood_data = SampleNeighborhood
    /\ call.property_data.year_built.k = "absent"
    /\ call.property_data.days_on_market.k = "absent"
    /\ AiRiskOf = 6525
    /\ call.result.ai_risk_score \in {652, 653}
    /\ call.result.ai_growth_score = 743

\* C11: no scoring function raises on a zero denominator or a missing
\* optional field: list price 0 gives rental yield 0, a baseline average price
\* per area of 0 gives the location default 75 and a valuation score, and a
\* missing year built, days on market or price per area takes its default
\* (2000, 30, 200).
C11_NoArithmeticFault ==
    /\ (call.fn = "metrics" /\ call.property_data.list_price.k # "none") =>
           /\ ~call.result.raised
           /\ (call.property_data.list_price.k = "absent"
                   \/ call.property_data.list_price.v = 0) => call.result.rental_yield = 0
           /\ call.property_data.year_built.k = "absent" =>
                  call.result.appreciation_rate = 32
           /\ call.property_data.days_on_market.k = "absent" =>
                  call.result.demand_index = 70
    /\ (call.fn = "location" /\ call.street_stats.k = "full"
            /\ call.street_stats.avg_price_per_sqft.num = 0 /\ IsNum(call.price_per_sqft)) =>
           call.result = [raised |-> FALSE, v |-> 75]
    /\ (call.fn = "ai_scores" /\ call.property_data.price_per_sqft.k # "none") =>
           /\ ~call.result.raised
           /\ call.result.ai_valuation_score \in {600, 700, 800, 850, 900}

\* The rows of the table of a street_stats call that match its street and city
Matching == {i \in DOMAIN call.rows : /\ Like(call.rows[i].address, call.street_name)
                                      /\ call.rows[i].city = call.city}

\* C12 as stated: when no record matches street and city the aggregation
\* returns statistics whose count, means, median and standard deviation are 0.
C12_EmptyAllZero ==
    (call.fn = "street_stats" /\ Matching = {}) =>
        /\ call.result.k = "full"
        /\ call.result.property_count = 0
        /\ RatIsZero(call.result.avg_price) /\ RatIsZero(call.result.median_price)
        /\ RatIsZero(call.result.avg_price_per_sqft) /\ RatIsZero(call.result.avg_sqft)
        /\ call.result.std_price = StdZero

\* C12 as amended: when no record matches street and city the aggregation
\* returns the empty mapping (no count, mean, median or standard deviation
\* entry) and does not raise.
C12_EmptyReturnsNoStats ==
    (call.fn = "street_stats" /\ Matching = {}) => call.result.k = "empty"

\* a table with rows none of which is on the street asked for
C12_Witness ==
    /\ call.fn = "street_stats" /\ Matching = {}
    /\ Len(call.rows) = 2
    /\ call.street_name = <<"Elm", "St">>
    /\ call.result = EmptyStats

\* The matching rows of a street_stats call whose column col holds a value
\* (not NULL), and those whose value is also not 0
Present(col) == {i \in Matching : call.rows[i][col].k = "val"}
NonZero(col) == {i \in Present(col) : call.rows[i][col].v # 0}

\* sum over the rows I of column col, and of the squares of n * x - s
ColSum(I, col) == SumOver(I, [i \in I |-> call.rows[i][col].v])
SquaredDeviations(I, col) ==
    LET n == Cardinality(I)
        s == ColSum(I, col)
    IN  SumOver(I, [i \in I |-> (n * call.rows[i][col].v - s) * (n * call.rows[i][col].v - s)])

\* the k-th smallest value of column col among the rows I
KthSmallest(I, col, k) ==
    LET x == [i \in I |-> call.rows[i][col].v]
        i == CHOOSE j \in I : /\ Cardinality({m \in I : x[m] < x[j]}) < k
                              /\ k <= Cardinality({m \in I : x[m] <= x[j]})
    IN  x[i]

\* The statistics of a street_stats call are those of the contributors P (price)
\* and A (area): count of all matching rows, mean, median and population
\* standard deviation of the prices of P, mean of the areas of A, 0 for a
\* metric without contributors
StatsOver(P, A) ==
    LET r == call.result
        n == Cardinality(P)
    IN  /\ r.k = "full"
        /\ r.property_count = Cardinality(Matching)
        /\ IF P = {}
           THEN RatIsZero(r.avg_price) /\ RatIsZero(r.median_price) /\ r.std_price = StdZero
           ELSE /\ r.avg_price.num * n = ColSum(P, "list_price") * r.avg_price.den
                /\ 2 * r.median_price.num =
                       r.median_price.den * (KthSmallest(P, "list_price", (n + 1) \div 2)
                                             + KthSmallest(P, "list_price", n \div 2 + 1))
                /\ r.std_price.g * r.std_price.g * r.std_price.num * n * n * n =
                       r.std_price.den * SquaredDeviations(P, "list_price")
        /\ IF A = {} THEN RatIsZero(r.avg_sqft)
           ELSE r.avg_sqft.num * Cardinality(A) = ColSum(A, "sqft") * r.avg_sqft.den

\* C13 as stated: for a non-empty record set each metric is aggregated over
\* exactly the records in which it is present (not NULL): count over all
\* matching records, price mean / median / population standard deviation over
\* the records with a price, area mean over the records with an area, 0 for a
\* metric nobody contributes to.
C13_PerMetricPresent ==
    (call.fn = "street_stats" /\ Matching # {}) =>
        StatsOver(Present("list_price"), Present("sqft"))

\* C13 as amended: the contributors of a metric are the records in which it
\* is present and not 0.
C13_PerMetricNonZero ==
    (call.fn = "street_stats" /\ Matching # {}) =>
        StatsOver(NonZero("list_price"), NonZero("sqft"))

\* three matching records, one without a price but with an area, the other
\* two with prices 100 and 300: mean 200, median 200, std 100, area mean 2000
C13_Witness ==
    /\ call.fn = "street_stats" /\ Cardinality(Matching) = 3
    /\ Cardinality(NonZero("list_price")) = 2
    /\ \E i \in Matching : call.rows[i].list_price = NoneV /\ call.rows[i].sqft = Val(2000)
    /\ call.result.avg_price = Rat(400, 2)
    /\ call.result.median_price = Rat(400, 2)
    /\ call.result.std_price = StdDev(200, 2, 8)
    /\ call.result.avg_sqft.num = 2000 * call.result.avg_sqft.den

\* The z-score of the list price of a compare call against the prices that
\* contribute to the statistics: with n prices of sum s, z^2 = n * D^2 / Q for
\* D = n * price - s and Q the sum of the squared n * x - s.  ZRounds(r) says
\* that r hundredths is |z| rounded to two decimals, ZExact(r) that it is |z|.
ZContributors == NonZero("list_price")
ZD == Cardinality(ZContributors) * call.list_price.v - ColSum(ZContributors, "list_price")
ZQ == SquaredDeviations(ZContributors, "list_price")
ZRounds(r) ==
    LET h == Gcd(ZD * ZD, ZQ)
        A == Cardinality(ZContributors) * ((ZD * ZD) \div h)
        B == ZQ \div h
    IN  /\ r = 0 \/ (2 * r - 1) * (2 * r - 1) * B <= 40000 * A
        /\ 40000 * A <= (2 * r + 1) * (2 * r + 1) * B
ZExact(r) ==
    LET h == Gcd(ZD * ZD, ZQ)
        A == Cardinality(ZContributors) * ((ZD * ZD) \div h)
        B == ZQ \div h
    IN  r * r * B = 10000 * A

\* C14 as stated: the comparison reports a price z-score of 0 when the
\* baseline standard deviation is 0 and (price - mean) / std otherwise; a
\* price equal to the mean gives z-score 0 and percentile 50.
C14_ZScoreAsStated ==
    (call.fn = "compare" /\ call.street_stats.k = "full") =>
        /\ ~call.result.raised
        /\ call.result.price
        /\ ZQ = 0 => call.result.price_zscore = 0
        /\ ZQ > 0 => /\ ZExact(Magnitude(call.result.price_zscore))
                     /\ (call.result.price_zscore < 0) <=> (ZD < 0)
        /\ ZD = 0 => /\ call.result.price_zscore = 0
                     /\ call.result.price_percentile = [lo |-> 50, hi |-> 50]

\* C14 as amended: when the baseline standard deviation is 0 the comparison
\* leaves the price z-score and percentile out; otherwise the z-score is
\* (price - mean) / std rounded to two decimals, and a price equal to the
\* mean gives z-score 0 and percentile 50.
C14_ZScoreOmittedWhenFlat ==
    (call.fn = "compare" /\ call.street_stats.k = "full") =>
        /\ ~call.result.raised
        /\ call.result.price <=> ZQ > 0
        /\ ZQ > 0 =>
               /\ ZRounds(Magnitude(call.result.price_zscore))
               /\ call.result.price_zscore < 0 => ZD < 0
               /\ call.result.price_zscore > 0 => ZD > 0
               /\ ZD = 0 => /\ call.result.price_zscore = 0
                            /\ call.result.price_percentile = [lo |-> 50, hi |-> 50]

\* prices 100, 200, 300 and a price of 200: z-score 0, percentile 50
C14_Witness ==
    /\ call.fn = "compare" /\ call.list_price = Val(200)
    /\ Len(call.rows) = 3
    /\ {call.rows[i].list_price : i \in 1..3} = {Val(100), Val(200), Val(300)}
    /\ call.street_stats.avg_price = Rat(600, 3)
    /\ call.result.price /\ call.result.price_zscore = 0
    /\ call.result.price_percentile = [lo |-> 50, hi |-> 50]

\* The geographic point of a row is its latitude and longitude; it lies
\* within the radius of the centre when ST_DWithin holds of it.
GeoPoint(row) == [k |-> "val", p |-> Point(row.latitude, row.longitude)]
WithinRadius == {store[i].id : i \in {j \in 1..Len(store) :
                     ST_DWithin(GeoPoint(store[j]), last.point, last.radius_miles)}}
Found == {last.found[n] : n \in 1..Len(last.found)}

\* C15: a proximity search returns all and only the rows whose point lies
\* within the radius of the centre, so a row that sync persisted with
\* latitude a and longitude b is returned by every search centred at (a, b);
\* an analysis lists at most 10 nearby rows.
C15_NearbyAllAndOnly ==
    /\ last.op = "nearby" =>
           /\ Found = WithinRadius
           /\ \A i \in 1..Len(store) :
                  Point(store[i].latitude, store[i].longitude) = last.point
                      => store[i].id \in Found
    /\ (last.op = "analyze" /\ last.status = "ok") =>
           Len(last.analysis.nearby_properties) <= 10

\* The rows a listing call returned
Listed == {call.rows[call.result[n]] : n \in 1..Len(call.result)}

\* C16: every record a filtered listing returns satisfies every filter the
\* request supplies, whatever its value (0 included), and the listing returns
\* at most limit records.
C16_ListingMeetsFilters ==
    call.fn = "list" =>
        /\ Len(call.result) <= call.limit
        /\ \A row \in Listed :
              /\ call.filters.city.k = "val" => row.city = call.filters.city.v
              /\ call.filters.zip_code.k = "val" => row.zip_code = call.filters.zip_code.v
              /\ call.filters.min_price.k = "val" =>
                     row.list_price.k = "val" /\ row.list_price.v >= call.filters.min_price.v
              /\ call.filters.max_price.k = "val" =>
                     row.list_price.k = "val" /\ row.list_price.v <= call.filters.max_price.v
              /\ call.filters.min_beds.k = "val" =>
                     row.bedrooms.k = "val" /\ row.bedrooms.v >= call.filters.min_beds.v
              /\ call.filters.max_beds.k = "val" =>
                     row.bedrooms.k = "val" /\ row.bedrooms.v <= call.filters.max_beds.v

\* A fetch call whose configuration sends it to the external API: a
\* credential is configured and sample mode is disabled
UsesApi == call.attom_key \notin {NoneV, Val("")} /\ ~call.use_sample

\* The list a fetch call returned consists of sample listings of the
\* requested city
SampleOfCity ==
    /\ call.result.properties # <<>>
    /\ \A i \in DOMAIN call.result.properties :
           /\ call.result.properties[i].data_source = "SAMPLE"
           /\ call.result.properties[i].city = call.city

\* C17: the fetch calls the external API exactly when a credential is
\* configured and sample mode is disabled; in every other configuration, and
\* whenever the external call or the transformation raises, it returns sample
\* listings of the requested city; it never raises.
C17_FetchFallsBackToSample ==
    call.fn = "fetch" =>
        /\ call.result.called <=> UsesApi
        /\ ~UsesApi => SampleOfCity
        /\ call.fetch \in {"call_raises", "transform_raises"} => SampleOfCity
        /\ ~call.result.raised

\* the external call is made, fails, and sample listings of Dallas come back
C17_Witness ==
    /\ call.fn = "fetch" /\ UsesApi /\ call.fetch = "call_raises"
    /\ call.city = "Dallas" /\ call.result.called /\ SampleOfCity
    /\ Len(call.result.properties) = SampleCount

\* Of the text of a summary call: the positions of the lines containing
\* "EXECUTIVE SUMMARY", the first of them, and the smallest position in a set
Markers == {i \in DOMAIN call.lines : call.lines[i].marker}
Least(S) == CHOOSE i \in S : \A j \in S : i <= j
\* the first heading after position i, or the position past the end
HeadingAfter(i, H) == Least({j \in H : j > i} \cup {Len(call.lines) + 1})
\* the first three (or fewer) positions of a set, in order
FirstThree(S) ==
    LET ordered == SelectSeq([n \in 1..Len(call.lines) |-> n], LAMBDA n : n \in S)
    IN  SubSeq(ordered, 1, Min(3, Len(ordered)))

\* C19 as stated: when a line contains "EXECUTIVE SUMMARY" the summary is
\* built from 1 to 3 lines, the first non-empty non-heading lines that follow
\* the first such line and precede the next heading; when no line contains it
\* the summary is the first 200 characters of the text.
C19_SummaryAsStated ==
    call.fn = "summary" =>
        IF Markers = {} THEN call.result = FirstChars(200)
        ELSE LET headings == {i \in DOMAIN call.lines : IsHeading(call.lines[i])}
                 stop == HeadingAfter(Least(Markers), headings)
                 body == {i \in DOMAIN call.lines :
                             /\ i > Least(Markers) /\ i < stop
                             /\ ~IsBlank(call.lines[i]) /\ ~IsHeading(call.lines[i])}
             IN  /\ call.result.k = "joined"
                 /\ Len(call.result.lines) \in 1..3
                 /\ call.result.lines = FirstThree(body)

\* The lines a summary can be built from: non-empty, non-heading lines after
\* the first line containing "EXECUTIVE SUMMARY" that do not contain it
Eligible ==
    {i \in DOMAIN call.lines :
        /\ Markers # {} /\ i > Least(Markers)
        /\ ~IsBlank(call.lines[i]) /\ ~IsHeading(call.lines[i]) /\ ~call.lines[i].marker}

\* C19 as amended: when such lines exist the summary is built from 1 to 3 of
\* them, in order from the first and stopping at the first heading after it
\* (a heading containing "EXECUTIVE SUMMARY" does not stop it); otherwise the
\* summary is the first 200 characters of the text.
C19_SummaryFromEligibleLines ==
    call.fn = "summary" =>
        IF Eligible = {} THEN call.result = FirstChars(200)
        ELSE LET headings == {i \in DOMAIN call.lines :
                                 IsHeading(call.lines[i]) /\ ~call.lines[i].marker}
                 stop == HeadingAfter(Least(Eligible), headings)
             IN  /\ call.result.k = "joined"
                 /\ Len(call.result.lines) \in 1..3
                 /\ call.result.lines = FirstThree({i \in Eligible : i < stop})

\* four prose lines follow the heading "### EXECUTIVE SUMMARY": the first
\* three are taken
C19_Witness ==
    /\ call.fn = "summary" /\ Len(call.lines) = MaxLines
    /\ call.lines[1].marker /\ IsHeading(call.lines[1])
    /\ call.result = Joined(<<2, 3, 4>>)
    /\ 5 \in Eligible

\* Of the text of a sections call: the positions of the section boundaries,
\* the body lines of the boundary at position i, and the boundaries that get
\* an entry
Boundaries == {i \in DOMAIN call.lines : IsHeading(call.lines[i]) \/ call.lines[i].upper}
BodyOf(i) == SubSeq(call.lines, i + 1, HeadingAfter(i, Boundaries) - 1)
Kept == {i \in Boundaries : call.lines[i].text # <<>> /\ BodyOf(i) # <<>>}

\* C20 as stated: the mapping has one entry per section boundary, keyed by
\* the boundary's heading text, whose body is the lines up to the next
\* boundary or the end; lines before the first boundary are in no body.
C20_SectionsAsStated ==
    call.fn = "sections" =>
        /\ Cardinality(DOMAIN call.result) = Cardinality(Boundaries)
        /\ \A i \in Boundaries :
              /\ call.lines[i].text \in DOMAIN call.result
              /\ call.result[call.lines[i].text] = BodyOf(i)

\* C20 as amended: the mapping has one entry per heading text of the
\* boundaries with a non-empty heading text and at least one body line; its
\* body is the lines between the last such boundary of that text and the
\* next boundary or the end.
C20_SectionsOfKeptBoundaries ==
    call.fn = "sections" =>
        /\ DOMAIN call.result = {call.lines[i].text : i \in Kept}
        /\ \A i \in Kept :
              (\A j \in Kept : call.lines[j].text = call.lines[i].text => j <= i)
                  => call.result[call.lines[i].text] = BodyOf(i)

\* two sections with bodies after a line that belongs to none
C20_Witness ==
    /\ call.fn = "sections" /\ Len(call.lines) = MaxLines
    /\ Boundaries = {2, 4} /\ Kept = {2, 4}
    /\ Cardinality(DOMAIN call.result) = 2
    /\ call.result[call.lines[2].text] = <<call.lines[3]>>
    /\ call.result[call.lines[4].text] = <<call.lines[5]>>

-----------------------------------------------------------------------------
RowIds(rows) == {rows[i].id : i \in 1..Len(rows)}
LookupMissed(id) == last.op = "lookup" /\ last.id = id /\ last.status = "not_found"

\* C21: no operation deletes a record.  Every step of sync, listing, lookup,
\* analyze, audit, proximity search and city summary keeps every row's id in
\* the table, and a lookup of an id that was in the table before the step
\* finds a row: an id found once is found by every later lookup.
C21_IdsOnlyGrow ==
    [][/\ RowIds(store) \subseteq RowIds(store')
       /\ \A id \in RowIds(store) : ~LookupMissed(id)']_vars

\* A lookup finds a row after a later sync has grown the table
C21_Witness ==
    /\ last.op = "lookup" /\ last.status = "ok" /\ last.id = 1
    /\ Len(store) = 2

-----------------------------------------------------------------------------
\* C22: every row that sync persisted from sample data has, after inserts and
\* updates, a list price, an area that is not zero and a price per square
\* foot with price_per_sqft * sqft = list_price.
C22_SamplePriceConsistent ==
    call.fn = "syncs" =>
        \A i \in 1..Len(call.rows) :
            call.rows[i].data_source = "SAMPLE" =>
                /\ call.rows[i].price_per_sqft.k = "val"
                /\ call.rows[i].sqft.k = "val" /\ call.rows[i].sqft.v # 0
                /\ call.rows[i].list_price.k = "val"
                /\ call.rows[i].price_per_sqft.v * call.rows[i].sqft.v
                       = call.rows[i].list_price.v

\* A row inserted by the first sync whose area and price an update changed
C22_Witness ==
    /\ call.fn = "syncs" /\ call.updated > 0
    /\ \E i \in 1..Len(call.before) :
           /\ call.rows[i].id = call.before[i].id
           /\ call.rows[i].sqft # call.before[i].sqft
           /\ call.rows[i].list_price # call.before[i].list_price

-----------------------------------------------------------------------------
\* The row an update leaves: the columns whose key the item carries take the
\* item's value, every other column, the id and the scores keep theirs
Written(old, d) == IF d.k = "absent" THEN old ELSE d
Overwritten(old, item) ==
    [id |-> old.id,
     address |-> item.address.a, city |-> item.city, zip_code |-> item.zip_code,
     latitude |-> item.latitude, longitude |-> item.longitude,
     location |-> Written(old.location, item.location),
     bedrooms |-> Written(old.bedrooms, item.bedrooms),
     sqft |-> Written(old.sqft, item.sqft),
     year_built |-> Written(old.year_built, item.year_built),
     list_price |-> Written(old.list_price, item.list_price),
     price_per_sqft |-> Written(old.price_per_sqft, item.price_per_sqft),
     days_on_market |-> Written(old.days_on_market, item.days_on_market),
     status |-> IF item.status.k = "absent" THEN old.status ELSE item.status.s,
     features |-> Written(old.features, item.features),
     data_source |-> item.data_source,
     scores |-> old.scores]
SameAddress == {i \in 1..Len(call.before) : call.before[i].address = call.item.address.a}

-----------------------------------------------------------------------------
\* C24: for every record and neighborhood, the growth score and the risk
\* score that calculate_ai_scores returns lie in [0, 100] (0..1000 tenths),
\* records built long ago or with year_built 0 included.
C24_GrowthRiskInRange ==
    call.fn = "ai_scores" /\ ~call.result.raised =>
        /\ 0 <= call.result.ai_growth_score /\ call.result.ai_growth_score <= 1000
        /\ 0 <= call.result.ai_risk_score /\ call.result.ai_risk_score <= 1000

-----------------------------------------------------------------------------
\* C25: analyze, audit, lookup, listing, proximity search and city summary
\* leave the table as it was: no column and no stored score of any row is
\* written and no row is added, so a second audit of an id starts from the
\* table the first one read.
C25_ReadsLeaveStore ==
    [][last'.op \in {"analyze", "audit", "lookup", "listing", "nearby", "city"}
           => store' = store]_vars

\* An audit that returned a report computed from a location score other than
\* the one the row stores
C25_Witness ==
    /\ last.op = "audit" /\ last.status = "ok" /\ ~last.report.raised
    /\ \E i \in 1..Len(store) :
           /\ store[i].id = last.id
           /\ store[i].scores.location_score # last.analysis.scores.location_score

-----------------------------------------------------------------------------
\* C26: in analyze the street statistics of a persisted row are never empty:
\* the street name extracted from the row's address occurs in that address,
\* so the row is in its own group and property_count >= 1.
C26_OwnStreetStatsNeverEmpty ==
    call.fn = "analysis_street_stats" =>
        /\ Like(call.rows[call.i].address, extract_street_name(call.rows[call.i].address))
        /\ call.result.k = "full"
        /\ call.result.property_count >= 1

-----------------------------------------------------------------------------
\* C27: the two report strategies agree on the numbers: for the same
\* property and analytics, the overall, valuation, growth and risk scores of
\* a report of the generative strategy equal those of the template report.
C27_StrategiesAgreeOnScores ==
    last.op = "audit" /\ last.report.strategy = "generative" =>
        \E template \in {generate_sample_audit(last.analysis.property,
                                                AllAnalytics(last.analysis))} :
            /\ ~template.raised
            /\ last.report.overall_score = template.overall_score
            /\ last.report.valuation_score = template.valuation_score
            /\ last.report.growth_score = template.growth_score
            /\ last.report.risk_score = template.risk_score

-----------------------------------------------------------------------------
\* The addresses of the items of a fetched batch
Addresses(batch) == {batch[i].address.a : i \in WellFormed(batch)}

\* C28: when two sync requests whose fetched batches share an address are
\* handled concurrently by one process, the table ends with exactly one row
\* for that address.
C28_ConcurrentSyncsOneRecord ==
    call.fn = "requests" /\ (\A r \in Requests : call.pc[r] = "done") =>
        \A a \in Addresses(call.fetched[1]) \cap Addresses(call.fetched[2]) :
            Cardinality({i \in 1..Len(store) : store[i].address = a}) = 1

====
